---- MODULE Spec2Model ----
(***************************************************************************)
(* Crystal Hunters: Duo Chronicles.  A model of the App component (game    *)
(* state, level, level info, the asynchronous startGame), of the           *)
(* GameCanvas effect that starts and cancels the frame loop, and of one    *)
(* call of update() on the registries.                                     *)
(*                                                                         *)
(* React.  A setState call enqueues an update (queued); Render commits the *)
(* queued updates and schedules the GameCanvas effect when gameState or    *)
(* levelInfo changed; FlushEffects runs the cleanup of the previous run    *)
(* and the effect body.  The browser may run a requested animation frame   *)
(* between any two of these steps.                                         *)
(*                                                                         *)
(* Geometry.  Positions and velocities are real-valued vectors; the model  *)
(* keeps no coordinates and no travel times.  Every distance test of       *)
(* update() is decided by an attribute the entity receives where the code  *)
(* draws its random position or direction: a crystal records which players *)
(* come within 50 units of it (near), a crate which players touch it and   *)
(* whether it lies in the players' line of fire (shot), a pickup which     *)
(* players touch it (near), an enemy projectile which players it reaches   *)
(* (aim), or that it ends in a building (wall), and after how many ticks   *)
(* of flight (hitAt).  A player projectile fired while an enemy is in the  *)
(* registry is aimed by the auto aim (locked) and overlaps the first       *)
(* living enemy of the registry.  The camera is kept as the set of living  *)
(* players it moves towards.  Particles are counted by remaining life.     *)
(* A crate also records the tick from which the players touch it           *)
(* (touchAt), a pickup the crate it dropped from (pos), a projectile the   *)
(* tick it was fired in (born), the rotation of its owner and its spread.  *)
(*                                                                         *)
(* The procedural environment, the collision resolution and the motion of  *)
(* a player are modelled with coordinates, in thousandths of a unit, and   *)
(* are applied to drawn arguments one call at a time.                      *)
(*                                                                         *)
(* scope selects what is explored: "session" the sessions with the end     *)
(* panels, "combat" one session with more crate, pickup and shot draws,    *)
(* "env" one session with calls of getEnvironmentAt in between, "probe"    *)
(* one call of a function.                                                 *)
(***************************************************************************)
EXTENDS Integers, Sequences, FiniteSets, TLC

(***************************************************************************)
(* Bounds of the exploration.                                              *)
(***************************************************************************)
\* ticks that are explored of the session the first startGame call starts
MaxTicks == 1450
\* ticks that are explored of every other session
MaxReplayTicks == 3
\* sessions (initGame calls) that are explored
MaxSessions == 2
\* regular enemies alive at the end of a tick
MaxEnemies == 1
\* calls of startGame that are explored
MaxStarts == 3
\* frames the browser runs while App has work pending (an awaited
\* generateLevelInfo, a render, an effect flush)
MaxLag == 1
\* ticks that are explored of a session under "combat"
MaxCombatTicks == 610
\* ticks that are explored of a session under "env"
MaxEnvTicks == 4

(***************************************************************************)
(* Program constants.                                                      *)
(***************************************************************************)
EnemyPeriod == 120
EnemyCap == 30
CrystalPeriod == 60
CrystalCap == 15
CratePeriod == 300
CrateCap == 5
CrystalScore == 50
KillScore == 100
CrateHp == 30
BossHpPerLevel == 1500
BossCooldown == 120
BurstSize == 16
ParticleLife == 20

Players == {1, 2}
NULL == [none |-> TRUE]

\* Player identities 'p1', 'p2'; the boss is 'boss'; every other enemy is
\* Math.random().toString(), a decimal numeral.  An identity is kept as its
\* first character and a number.
PlayerId(p) == <<"p", p>>
BossId == <<"b", 0>>
EnemyId(n) == <<"0", n>>
StartsWithP(id) == id[1] = "p"

(***************************************************************************)
(* The draws of Math.random() and of the abstracted geometry.              *)
(***************************************************************************)
\* spawnEnemy: enemyType
EnemyTypes == {"walker", "shooter"}
\* spawnEnemy: visuals.scale in tenths, visuals.hasArmor
EnemyScales == {10}
EnemyArmor == {FALSE, TRUE}
\* shooter: attackCooldown = 80 + random * 40
ShooterCooldowns == {80}
\* shooter: dist < 550
ShooterRange == {TRUE}
\* a shooter's projectile misses, or ends in a building
Walls == {FALSE, TRUE}
\* the 16 projectiles of a boss burst: which players they reach, and after
\* how many ticks of flight
BurstAims == {<<{1, 2}, 0>>, <<{2}, 20>>}
\* the keys of keysPressed that update() reads for firing
Keys == {"Space", "Enter"}
\* which players come within 50 units of a crystal
CrystalNear == {{1, 2}}
\* which players touch a crate, and how many ticks after it was spawned;
\* whether player projectiles reach it
CrateTouch == {{}}
CrateDelay == {0}
CrateShot == {TRUE}
\* spawnPickup: the weapon drawn, and which players touch the pickup
PickupWeapons == {"shotgun"}
PickupNear == {{}}
\* the same draws under "combat"
CombatCrateTouch == {{}, {1, 2}}
CombatCrateDelay == {1}
CombatPickupNear == {{1}}
\* fireWeapon, minigun and ak47: Math.random() - 0.5, in thousandths
SpreadDraws == {0}
\* a shooter's projectile under "combat": the players it reaches, after how
\* many ticks of flight, and whether it is in a building by then
CombatShots == {<<{1}, 0, TRUE>>}

VARIABLES
  \* App (React state as of the last render)
  gameState, level, levelInfo,
  \* calls of startGame so far
  startCalls,
  \* state updates enqueued by setState and not yet rendered
  queued,
  \* generateLevelInfo calls awaited by startGame
  generating,
  \* the GameCanvas effect [gameState, levelInfo] is scheduled to run
  effectPending,
  \* GameCanvas refs
  playersRef, enemiesRef, bulletsRef, particlesRef, crystalsRef, cratesRef,
  pickupsRef, keysPressed, cameraRef, frameIdRef, waveTimerRef,
  bossSpawnedRef, crystalsCollectedRef,
  \* animation frames requested and not yet run or cancelled
  scheduled,
  \* history: sessions started, calls of the session callbacks by loop,
  \* boss spawns of the session, fields of a player when its dead flag was
  \* set, what the last update() call did
  sessionId, gameOverCalls, levelCompleteCalls, bossSpawns, deathSnap, ev,
  \* frames run since App last had no work pending
  lag,
  \* what the exploration covers: whole sessions with few draws ("session"),
  \* the first crates of a session with more draws ("combat"), or one call
  \* of a function on drawn arguments ("probe")
  scope,
  \* the call of the function under "probe": its arguments and its result
  probe

appVars == <<gameState, level, levelInfo, startCalls, queued, generating,
             effectPending>>
simVars == <<playersRef, enemiesRef, bulletsRef, particlesRef, crystalsRef,
             cratesRef, pickupsRef, cameraRef, waveTimerRef, bossSpawnedRef,
             crystalsCollectedRef>>
histVars == <<sessionId, gameOverCalls, levelCompleteCalls, bossSpawns,
              deathSnap, ev, lag, scope, probe>>
vars == <<appVars, simVars, keysPressed, frameIdRef, scheduled, histVars>>

(***************************************************************************)
(* Helpers on sequences.                                                   *)
(***************************************************************************)
Alive(players) == {p \in DOMAIN players : ~players[p].dead}
MinOf(S) == CHOOSE x \in S : \A y \in S : x <= y
RegularEnemies(enemies) == SelectSeq(enemies, LAMBDA e : e.type = "enemy")
HasBoss(enemies) == \E i \in 1..Len(enemies) : enemies[i].type = "boss"

(***************************************************************************)
(* initGame: the registries of a fresh session.                            *)
(***************************************************************************)
\* A rotation.  Set from the keys it is a number of quarter turns (0 is
\* the positive x axis, 1 the positive y axis); set by the auto aim it is
\* the angle towards the target, which the model does not know.
Facing(q) == [aimed |-> FALSE, quarter |-> q]
Aimed == [aimed |-> TRUE, quarter |-> 0]

InitialPlayers ==
  << [id |-> PlayerId(1), type |-> "player", weapon |-> "sniper",
      hp |-> 200, maxHp |-> 200, dead |-> FALSE, rotation |-> Facing(0),
      cooldown |-> 0, maxCooldown |-> 90, score |-> 0],
     [id |-> PlayerId(2), type |-> "player", weapon |-> "ak47",
      hp |-> 150, maxHp |-> 150, dead |-> FALSE, rotation |-> Facing(0),
      cooldown |-> 0, maxCooldown |-> 10, score |-> 0] >>

NoParticles == [k \in 1..(ParticleLife - 1) |-> 0]
\* What the bullet pass of one update() call did, counted projectile by
\* projectile.  hurt: projectiles that changed the hp of an entity;
\* posthumous: that changed the hp of an entity already dead; pierced: that
\* changed an hp and kept a lifeTime above 0; spent: whose lifeTime was at or
\* below 0 after the decrement and the building test; spentOnCrate,
\* spentOnPlayer: spent ones that overlapped a living crate, a living
\* player; ghostHits: spent ones that changed an entity or the pickups;
\* corpses: live ones that overlapped a dead entity; unsynced: that left a
\* crate or an enemy with hp <= 0 and not dead, or dead with hp > 0;
\* crateHits: that changed the hp of a crate.
NoAudit ==
  [hurt |-> 0, posthumous |-> 0, pierced |-> 0, spent |-> 0,
   spentOnCrate |-> 0, spentOnPlayer |-> 0, ghostHits |-> 0, corpses |-> 0,
   unsynced |-> 0, crateHits |-> 0]
NoEvent ==
  [kind |-> "none", active |-> {}, bossGone |-> FALSE, countBefore |-> 0,
   spawnedBefore |-> FALSE, threshold |-> 0, spawned |-> 0,
   removed |-> 0, credit |-> [p \in Players |-> 0],
   drops |-> <<>>, opened |-> {}, touchedCorpse |-> FALSE, purged |-> {},
   kills |-> 0, award |-> [p \in Players |-> 0], audit |-> NoAudit]

\* The registries as one record; fresh counts the particles pushed in the
\* current update() call.
FreshSim(camera) ==
  [players |-> InitialPlayers, enemies |-> <<>>, bullets |-> <<>>,
   particles |-> NoParticles, fresh |-> 0, crystals |-> <<>>,
   crates |-> <<>>, pickups |-> <<>>, crystalsCollected |-> 0,
   bossSpawned |-> FALSE, waveTimer |-> 0, camera |-> camera,
   bossSpawns |-> 0, snap |-> [p \in Players |-> NULL],
   removed |-> 0, credit |-> [p \in Players |-> 0],
   drops |-> <<>>, kills |-> 0, award |-> [p \in Players |-> 0],
   audit |-> NoAudit]

(***************************************************************************)
(* spawnBullet: damage, radius and lifeTime by bulletType.                 *)
(***************************************************************************)
\* spawnBullet without its switch
DefaultStats(bulletType) == [damage |-> 15, radius |-> 4, lifeTime |-> 120]

BulletStats(bulletType) ==
  CASE bulletType = "sniper"  -> [damage |-> 150, radius |-> 5, lifeTime |-> 100]
    [] bulletType = "shotgun" -> [damage |-> 12, radius |-> 3, lifeTime |-> 30]
    [] bulletType = "minigun" -> [damage |-> 8, radius |-> 3, lifeTime |-> 60]
    [] bulletType = "laser"   -> [damage |-> 25, radius |-> 4, lifeTime |-> 80]
    [] bulletType = "ak47"    -> [damage |-> 20, radius |-> 4, lifeTime |-> 80]
    [] bulletType = "enemy_normal"
                              -> [damage |-> 10, radius |-> 6, lifeTime |-> 100]
    [] OTHER                  -> [damage |-> 15, radius |-> 4, lifeTime |-> 120]

\* One projectile.  vel is kept as its length (speed) and its angle: the
\* rotation of the owner plus spread, in thousandths of a radian.  born is
\* the tick of the update() call that pushed it (the code gives it a random
\* id).  An enemy projectile reaches
\* the players of aim, or a building (wall), once its lifeTime is down to
\* hitAt.  A player projectile is locked when its owner had an enemy to aim
\* at (the auto aim of the player update).
NewBullet(ownerId, bulletType, speed, shot, born) ==
  LET st == BulletStats(bulletType) IN
  [ownerId |-> ownerId, bulletType |-> bulletType, damage |-> st.damage,
   radius |-> st.radius, lifeTime |-> st.lifeTime, speed |-> speed,
   rotation |-> shot.rotation, spread |-> shot.spread, born |-> born,
   aim |-> shot.aim, wall |-> shot.wall, locked |-> shot.locked,
   hitAt |-> st.lifeTime - 1 - shot.flight]

\* spawnBullet: push the projectile; three sparks unless enemy_normal
spawnBullet(S, ownerId, bulletType, speed, shot) ==
  [S EXCEPT !.bullets = Append(@, NewBullet(ownerId, bulletType, speed, shot,
                                            S.waveTimer)),
            !.fresh = IF bulletType # "enemy_normal" THEN @ + 3 ELSE @]

spawnParticle(S, count) == [S EXCEPT !.fresh = @ + count]

(***************************************************************************)
(* fireWeapon: the profile of each weapon.                                 *)
(***************************************************************************)
WeaponProfile(weapon) ==
  CASE weapon = "sniper"  -> [speed |-> 35, cooldown |-> 90]
    [] weapon = "shotgun" -> [speed |-> 12, cooldown |-> 60]
    [] weapon = "minigun" -> [speed |-> 18, cooldown |-> 4]
    [] weapon = "laser"   -> [speed |-> 25, cooldown |-> 25]
    [] OTHER              -> [speed |-> 16, cooldown |-> 10]

\* the spread of each projectile of a shot, in thousandths of a radian; r is
\* Math.random() - 0.5 in thousandths
WeaponSpreads(weapon, r) ==
  CASE weapon = "sniper"  -> <<0>>
    [] weapon = "shotgun" -> [k \in 1..5 |-> (k - 3) * 150]
    [] weapon = "minigun" -> <<(r * 4) \div 10>>
    [] weapon = "laser"   -> <<0>>
    [] OTHER              -> <<r \div 10>>

PlayerShot(S, p) ==
  [aim |-> {}, flight |-> 0, wall |-> FALSE, locked |-> S.enemies # <<>>,
   rotation |-> S.players[p].rotation, spread |-> 0]

\* one projectile for each spread of spreads, from index k on
RECURSIVE spawnBullets(_, _, _, _, _, _, _)
spawnBullets(S, spreads, k, ownerId, bulletType, speed, shot) ==
  IF k > Len(spreads) THEN S
  ELSE spawnBullets(spawnBullet(S, ownerId, bulletType, speed,
                                [shot EXCEPT !.spread = spreads[k]]),
                    spreads, k + 1, ownerId, bulletType, speed, shot)

fireWeapon(S, p, r) ==
  LET w == S.players[p].weapon
      pr == WeaponProfile(w)
      bt == IF w \in {"sniper", "shotgun", "minigun", "laser"} THEN w ELSE "ak47"
      S1 == spawnBullets(S, WeaponSpreads(w, r), 1, PlayerId(p), bt, pr.speed,
                         PlayerShot(S, p))
  IN [S1 EXCEPT !.players[p].maxCooldown = pr.cooldown,
                !.players[p].cooldown = pr.cooldown]

\* vel of a projectile fired along an axis: (cos, sin) of the angle times
\* the speed
CosQ(q) == CASE q % 4 = 0 -> 1 [] q % 4 = 2 -> -1 [] OTHER -> 0
SinQ(q) == CASE q % 4 = 1 -> 1 [] q % 4 = 3 -> -1 [] OTHER -> 0
Velocity(b) ==
  <<CosQ(b.rotation.quarter) * b.speed, SinQ(b.rotation.quarter) * b.speed>>

(***************************************************************************)
(* spawnEnemy, spawnCrystal, spawnCrate, spawnPickup.                      *)
(***************************************************************************)
LevelNumber(L) == IF L = NULL \/ L.levelNumber = 0 THEN 1 ELSE L.levelNumber
\* a threshold two crystals short
ThresholdShort(L) == 10 + LevelNumber(L)
CRYSTALS_TO_BOSS(L) == 10 + LevelNumber(L) * 2

spawnEnemy(S, isBoss, L, d) ==
  IF isBoss
  THEN [S EXCEPT !.enemies = Append(@,
          [id |-> BossId, type |-> "boss", enemyType |-> "boss",
           hp |-> BossHpPerLevel * LevelNumber(L),
           maxHp |-> BossHpPerLevel * LevelNumber(L),
           dead |-> FALSE, attackCooldown |-> 0, inRange |-> TRUE])]
  ELSE LET base == ((50 + LevelNumber(L) * 10) * d.scale) \div 10
           hp == IF d.armor THEN (base * 3) \div 2 ELSE base
       IN [S EXCEPT !.enemies = Append(@,
             [id |-> EnemyId(S.waveTimer), type |-> "enemy",
              enemyType |-> d.enemyType, hp |-> hp, maxHp |-> hp,
              dead |-> FALSE, attackCooldown |-> 0, inRange |-> d.inRange])]

spawnCrystal(S, near) ==
  [S EXCEPT !.crystals = Append(@,
     [id |-> S.waveTimer, type |-> "crystal", hp |-> 1, maxHp |-> 1,
      dead |-> FALSE, near |-> near])]

spawnCrate(S, d) ==
  [S EXCEPT !.crates = Append(@,
     [id |-> S.waveTimer, type |-> "crate", hp |-> CrateHp, maxHp |-> CrateHp,
      dead |-> FALSE, touch |-> d.touch, touchAt |-> S.waveTimer + d.delay,
      shot |-> d.shot])]

\* pos is the position of the crate that was opened, kept as the crate's
\* id; drops lists the positions of the pickups pushed in this call
spawnPickup(S, pos, d) ==
  [S EXCEPT !.pickups = Append(@,
     [type |-> "pickup", pos |-> pos, hp |-> 1, maxHp |-> 1, dead |-> FALSE,
      weaponType |-> d.weapon, lifeTime |-> 1800, near |-> d.near]),
            !.drops = Append(@, pos)]

(***************************************************************************)
(* update, lines 511-521: the wave timer and the spawn policy.             *)
(***************************************************************************)
\* the spawn policy without the tests of the caps
SpawnPhaseUncapped(S, L, D) ==
  LET S1 == [S EXCEPT !.waveTimer = @ + 1]
      S2 == IF S1.waveTimer % EnemyPeriod = 0
            THEN spawnEnemy(S1, FALSE, L, D.enemy) ELSE S1
      S3 == IF S2.waveTimer % CrystalPeriod = 0
            THEN spawnCrystal(S2, D.crystal) ELSE S2
      S4 == IF S3.waveTimer % CratePeriod = 0
            THEN spawnCrate(S3, D.crate) ELSE S3
      S5 == IF S4.crystalsCollected >= CRYSTALS_TO_BOSS(L)
            THEN [spawnEnemy(S4, TRUE, L, D.enemy)
                    EXCEPT !.bossSpawned = TRUE, !.bossSpawns = @ + 1]
            ELSE S4
  IN IF S1.bossSpawned THEN S1 ELSE S5

SpawnPhase(S, L, D) ==
  LET S1 == [S EXCEPT !.waveTimer = @ + 1]
      S2 == IF S1.waveTimer % EnemyPeriod = 0 /\ Len(S1.enemies) < EnemyCap
            THEN spawnEnemy(S1, FALSE, L, D.enemy) ELSE S1
      S3 == IF Len(S2.crystals) < CrystalCap /\ S2.waveTimer % CrystalPeriod = 0
            THEN spawnCrystal(S2, D.crystal) ELSE S2
      S4 == IF Len(S3.crates) < CrateCap /\ S3.waveTimer % CratePeriod = 0
            THEN spawnCrate(S3, D.crate) ELSE S3
      S5 == IF S4.crystalsCollected >= CRYSTALS_TO_BOSS(L)
            THEN [spawnEnemy(S4, TRUE, L, D.enemy)
                    EXCEPT !.bossSpawned = TRUE, !.bossSpawns = @ + 1]
            ELSE S4
  IN IF S1.bossSpawned THEN S1 ELSE S5

(***************************************************************************)
(* update, lines 524-577: the player update (fire, cooldown).              *)
(***************************************************************************)
FireKey(p) == IF p = 1 THEN "Space" ELSE "Enter"

\* the auto aim turns the player to the nearest enemy within 1200 units:
\* to an enemy of the registry, when there is one
\* the turn of a player that fires without looking at the cooldown
PlayerStepNoCooldown(S, p, keys, r) ==
  IF S.players[p].dead THEN S
  ELSE LET S0 == IF S.enemies # <<>>
                 THEN [S EXCEPT !.players[p].rotation = Aimed] ELSE S
           S1 == IF FireKey(p) \in keys
                 THEN fireWeapon(S0, p, r) ELSE S0
       IN IF S1.players[p].cooldown > 0
          THEN [S1 EXCEPT !.players[p].cooldown = @ - 1] ELSE S1

PlayerStep(S, p, keys, r) ==
  IF S.players[p].dead THEN S
  ELSE LET S0 == IF S.enemies # <<>>
                 THEN [S EXCEPT !.players[p].rotation = Aimed] ELSE S
           S1 == IF FireKey(p) \in keys /\ S0.players[p].cooldown <= 0
                 THEN fireWeapon(S0, p, r) ELSE S0
       IN IF S1.players[p].cooldown > 0
          THEN [S1 EXCEPT !.players[p].cooldown = @ - 1] ELSE S1

PlayerPhase(S, keys, r) == PlayerStep(PlayerStep(S, 1, keys, r), 2, keys, r)

(***************************************************************************)
(* update, lines 580-603: crates opened by touch, pickups taken.           *)
(***************************************************************************)
\* hypot(c.pos - p.pos) < p.radius + c.radius
Touches(S, p, c) == p \in c.touch /\ S.waveTimer >= c.touchAt

RECURSIVE TouchCrates(_, _, _, _)
TouchCrates(S, p, i, D) ==
  IF i > Len(S.crates) THEN S
  ELSE IF ~S.crates[i].dead /\ Touches(S, p, S.crates[i])
       THEN TouchCrates(
              spawnPickup(spawnParticle([S EXCEPT !.crates[i].dead = TRUE], 10),
                          S.crates[i].id, D.pickup),
              p, i + 1, D)
       ELSE TouchCrates(S, p, i + 1, D)

\* the pickup loop without its test of the dead flag
RECURSIVE TouchPickupsShared(_, _, _, _)
TouchPickupsShared(S, p, i, n) ==
  IF i > n THEN S
  ELSE IF p \in S.pickups[i].near
       THEN TouchPickupsShared(
              spawnParticle([S EXCEPT !.pickups[i].dead = TRUE,
                                      !.players[p].weapon = S.pickups[i].weaponType],
                            10),
              p, i + 1, n)
       ELSE TouchPickupsShared(S, p, i + 1, n)

\* forEach visits the pickups present when it starts: n of them
RECURSIVE TouchPickups(_, _, _, _)
TouchPickups(S, p, i, n) ==
  IF i > n THEN S
  ELSE IF ~S.pickups[i].dead /\ p \in S.pickups[i].near
       THEN TouchPickups(
              spawnParticle([S EXCEPT !.pickups[i].dead = TRUE,
                                      !.players[p].weapon = S.pickups[i].weaponType],
                            10),
              p, i + 1, n)
       ELSE TouchPickups(S, p, i + 1, n)

InteractStep(S, p, D) ==
  IF S.players[p].dead THEN S
  ELSE LET S1 == TouchCrates(S, p, 1, D)
       IN TouchPickups(S1, p, 1, Len(S1.pickups))

\* the interaction pass without the filter of line 602
InteractPhaseNoPurge(S, D) ==
  LET S2 == InteractStep(InteractStep(S, 1, D), 2, D)
  IN [S2 EXCEPT !.pickups = SelectSeq(@, LAMBDA k : ~k.dead)]

InteractPhase(S, D) ==
  LET S2 == InteractStep(InteractStep(S, 1, D), 2, D)
  IN [S2 EXCEPT !.crates = SelectSeq(@, LAMBDA c : ~c.dead),
                !.pickups = SelectSeq(@, LAMBDA k : ~k.dead)]

(***************************************************************************)
(* update, lines 605-667: the enemy AI (fire, attack cooldown).            *)
(***************************************************************************)
\* the boss: a = e.rotation + (Math.PI / 8) * k, in thousandths of a radian
BurstSpreads == [k \in 1..BurstSize |-> (3927 * (k - 1)) \div 10]

\* enemy fire that does not look at the attack cooldown
EnemyFireUngated(S, i, D) ==
  LET e == S.enemies[i] IN
  IF e.enemyType = "shooter" /\ e.inRange
  THEN [spawnBullet(S, e.id, "enemy_normal", 7, D.shot)
          EXCEPT !.enemies[i].attackCooldown = D.cooldown]
  ELSE IF e.enemyType = "boss"
       THEN [spawnBullets(S, BurstSpreads, 1, e.id, "enemy_normal", 5, D.burst)
               EXCEPT !.enemies[i].attackCooldown = BossCooldown]
       ELSE S

\* enemy fire with the shooter's projectile speed in the boss burst too
EnemyFireOneSpeed(S, i, D) ==
  LET e == S.enemies[i] IN
  IF e.enemyType = "shooter" /\ e.attackCooldown <= 0 /\ e.inRange
  THEN [spawnBullet(S, e.id, "enemy_normal", 7, D.shot)
          EXCEPT !.enemies[i].attackCooldown = D.cooldown]
  ELSE IF e.enemyType = "boss" /\ e.attackCooldown <= 0
       THEN [spawnBullets(S, BurstSpreads, 1, e.id, "enemy_normal", 7, D.burst)
               EXCEPT !.enemies[i].attackCooldown = BossCooldown]
       ELSE S

EnemyFire(S, i, D) ==
  LET e == S.enemies[i] IN
  IF e.enemyType = "shooter" /\ e.attackCooldown <= 0 /\ e.inRange
  THEN [spawnBullet(S, e.id, "enemy_normal", 7, D.shot)
          EXCEPT !.enemies[i].attackCooldown = D.cooldown]
  ELSE IF e.enemyType = "boss" /\ e.attackCooldown <= 0
       THEN [spawnBullets(S, BurstSpreads, 1, e.id, "enemy_normal", 5, D.burst)
               EXCEPT !.enemies[i].attackCooldown = BossCooldown]
       ELSE S

RECURSIVE EnemySteps(_, _, _, _)
EnemySteps(S, i, active, D) ==
  IF i > Len(S.enemies) THEN S
  ELSE LET S1 == IF active # {} THEN EnemyFire(S, i, D) ELSE S
           S2 == IF active # {} /\ S1.enemies[i].attackCooldown > 0
                 THEN [S1 EXCEPT !.enemies[i].attackCooldown = @ - 1] ELSE S1
       IN EnemySteps(S2, i + 1, active, D)

EnemyPhase(S, active, D) == EnemySteps(S, 1, active, D)

(***************************************************************************)
(* update, lines 669-682: crystal collection.                              *)
(***************************************************************************)
\* the collection loop without its break: every player in range collects
RECURSIVE CollectNoBreak(_, _, _)
CollectNoBreak(S, i, active) ==
  IF i > Len(S.crystals) THEN S
  ELSE LET near == active \cap S.crystals[i].near
           n == Cardinality(near)
       IN IF n = 0 THEN CollectNoBreak(S, i + 1, active)
          ELSE CollectNoBreak(
                 [spawnParticle(S, 15 * n)
                    EXCEPT !.crystals[i].dead = TRUE,
                           !.crystalsCollected = @ + n,
                           !.players = [p \in DOMAIN S.players |->
                              IF p \in near
                              THEN [S.players[p] EXCEPT
                                      !.score = @ + CrystalScore]
                              ELSE S.players[p]]],
                 i + 1, active)

\* the first player of activePlayers within 50 units of the crystal
Collector(c, active) == MinOf(active \cap c.near)

RECURSIVE CollectCrystals(_, _, _)
CollectCrystals(S, i, active) ==
  IF i > Len(S.crystals) THEN S
  ELSE IF active \cap S.crystals[i].near # {}
       THEN LET p == Collector(S.crystals[i], active)
            IN CollectCrystals(
                 [spawnParticle(S, 15)
                    EXCEPT !.crystals[i].dead = TRUE,
                           !.crystalsCollected = @ + 1,
                           !.players[p].score = @ + CrystalScore],
                 i + 1, active)
       ELSE CollectCrystals(S, i + 1, active)

\* removed and credit record what the pass did: the crystals that left the
\* registry, the score each player gained
CrystalPhase(S, active) ==
  LET T == CollectCrystals(S, 1, active)
      kept == SelectSeq(T.crystals, LAMBDA c : ~c.dead)
  IN [T EXCEPT !.crystals = kept,
               !.removed = Len(S.crystals) - Len(kept),
               !.credit = [p \in Players |->
                             T.players[p].score - S.players[p].score]]

(***************************************************************************)
(* update, lines 684-758: one projectile of the bullet pass.               *)
(***************************************************************************)
FirstIndex(seq, Test(_)) ==
  LET hits == {i \in 1..Len(seq) : Test(seq[i])}
  IN IF hits = {} THEN 0 ELSE MinOf(hits)

\* activePlayers.forEach(p => p.score += 100)
AwardKill(players, active) ==
  [players EXCEPT ![1].score = IF 1 \in active THEN @ + KillScore ELSE @,
                  ![2].score = IF 2 \in active THEN @ + KillScore ELSE @]

\* the crate branch without its test of the dead flag
HitCrateAgain(S, i, D) ==
  LET b == S.bullets[i]
      c == FirstIndex(S.crates, LAMBDA x : x.shot)
  IN IF ~StartsWithP(b.ownerId) \/ c = 0 THEN S
     ELSE LET S1 == spawnParticle(
                      [S EXCEPT !.crates[c].hp = @ - b.damage,
                                !.bullets[i].lifeTime = 0], 3)
          IN IF S1.crates[c].hp <= 0
             THEN spawnPickup(spawnParticle([S1 EXCEPT !.crates[c].dead = TRUE],
                                            15), S1.crates[c].id, D.pickup)
             ELSE S1

\* lines 726-739: a player projectile against the crates
HitCrate(S, i, D) ==
  LET b == S.bullets[i]
      c == FirstIndex(S.crates, LAMBDA x : ~x.dead /\ x.shot)
  IN IF ~StartsWithP(b.ownerId) \/ c = 0 THEN S
     ELSE LET S1 == spawnParticle(
                      [S EXCEPT !.crates[c].hp = @ - b.damage,
                                !.bullets[i].lifeTime = 0], 3)
          IN IF S1.crates[c].hp <= 0
             THEN spawnPickup(spawnParticle([S1 EXCEPT !.crates[c].dead = TRUE],
                                            15), S1.crates[c].id, D.pickup)
             ELSE S1

\* the enemy branch without its test of the dead flag
HitEnemyAgain(S, i, active) ==
  LET b == S.bullets[i]
      t == FirstIndex(S.enemies, LAMBDA e : b.locked)
  IN IF t = 0 THEN S
     ELSE LET S1 == spawnParticle(
                      [S EXCEPT !.enemies[t].hp = @ - b.damage,
                                !.bullets[i].lifeTime = 0], 5)
          IN IF S1.enemies[t].hp <= 0
             THEN [spawnParticle(S1, 20)
                     EXCEPT !.enemies[t].dead = TRUE,
                            !.players = AwardKill(@, active)]
             ELSE S1

\* lines 742-757: a player projectile against the enemies
HitEnemy(S, i, active) ==
  LET b == S.bullets[i]
      t == FirstIndex(S.enemies, LAMBDA e : ~e.dead /\ b.locked)
  IN IF t = 0 THEN S
     ELSE LET S1 == spawnParticle(
                      [S EXCEPT !.enemies[t].hp = @ - b.damage,
                                !.bullets[i].lifeTime = 0], 5)
          IN IF S1.enemies[t].hp <= 0
             THEN [spawnParticle(S1, 20)
                     EXCEPT !.enemies[t].dead = TRUE,
                            !.players = AwardKill(@, active)]
             ELSE S1

\* lines 742-757: an enemy projectile against the players
HitPlayer(S, i) ==
  LET b == S.bullets[i]
      reached == {p \in DOMAIN S.players : ~S.players[p].dead /\ p \in b.aim
                                  /\ b.lifeTime <= b.hitAt}
  IN IF reached = {} THEN S
     ELSE LET t == MinOf(reached)
              S1 == spawnParticle(
                      [S EXCEPT !.players[t].hp = @ - b.damage,
                                !.bullets[i].lifeTime = 0], 5)
          IN IF S1.players[t].hp <= 0
             THEN LET S2 == [spawnParticle(S1, 20)
                               EXCEPT !.players[t].dead = TRUE]
                  IN [S2 EXCEPT !.snap[t] = S2.players[t]]
             ELSE S1

\* one projectile without the return of line 719
BulletStepThrough(S, i, active, D) ==
  LET S1 == [S EXCEPT !.bullets[i].lifeTime = @ - 1]
      b1 == S1.bullets[i]
      S2 == IF b1.wall /\ b1.lifeTime <= b1.hitAt
            THEN spawnParticle([S1 EXCEPT !.bullets[i].lifeTime = 0], 5)
            ELSE S1
      S3 == HitCrate(S2, i, D)
  IN IF S3.bullets[i].lifeTime > 0
     THEN IF StartsWithP(b1.ownerId) THEN HitEnemy(S3, i, active)
                                     ELSE HitPlayer(S3, i)
     ELSE S3

\* one projectile tried against enemies and players alike, whoever owns it
BulletStepNoFaction(S, i, active, D) ==
  LET S1 == [S EXCEPT !.bullets[i].lifeTime = @ - 1]
      b1 == S1.bullets[i]
      S2 == IF b1.wall /\ b1.lifeTime <= b1.hitAt
            THEN spawnParticle([S1 EXCEPT !.bullets[i].lifeTime = 0], 5)
            ELSE S1
      S3 == HitCrate(S2, i, D)
      S4 == IF S3.bullets[i].lifeTime > 0 THEN HitEnemy(S3, i, active) ELSE S3
  IN IF S2.bullets[i].lifeTime <= 0 THEN S2
     ELSE IF S4.bullets[i].lifeTime > 0 THEN HitPlayer(S4, i) ELSE S4

\* one projectile without the test of line 742 after the crate loop
BulletStepNoGuard(S, i, active, D) ==
  LET S1 == [S EXCEPT !.bullets[i].lifeTime = @ - 1]
      b1 == S1.bullets[i]
      S2 == IF b1.wall /\ b1.lifeTime <= b1.hitAt
            THEN spawnParticle([S1 EXCEPT !.bullets[i].lifeTime = 0], 5)
            ELSE S1
      S3 == HitCrate(S2, i, D)
  IN IF S2.bullets[i].lifeTime <= 0 THEN S2
     ELSE IF StartsWithP(b1.ownerId) THEN HitEnemy(S3, i, active)
                                     ELSE HitPlayer(S3, i)

BulletStep(S, i, active, D) ==
  LET S1 == [S EXCEPT !.bullets[i].lifeTime = @ - 1]
      b1 == S1.bullets[i]
      S2 == IF b1.wall /\ b1.lifeTime <= b1.hitAt
            THEN spawnParticle([S1 EXCEPT !.bullets[i].lifeTime = 0], 5)
            ELSE S1
      S3 == HitCrate(S2, i, D)
  IN IF S2.bullets[i].lifeTime <= 0 THEN S2
     ELSE IF S3.bullets[i].lifeTime > 0
          THEN IF StartsWithP(b1.ownerId) THEN HitEnemy(S3, i, active)
                                          ELSE HitPlayer(S3, i)
          ELSE S3

\* line 719 read on the registries before the projectile's turn: its
\* lifeTime is at or below 0 after the decrement or the building test
Spent(S, i) ==
  LET b == S.bullets[i]
  IN b.lifeTime - 1 <= 0 \/ (b.wall /\ b.lifeTime - 1 <= b.hitAt)

\* the projectile overlaps, in its turn, the circle of entity j of a
\* registry: a crate or an enemy for a player's projectile, a player for an
\* enemy's
OverlapsCrate(S, i, j) ==
  StartsWithP(S.bullets[i].ownerId) /\ S.crates[j].shot
OverlapsEnemy(S, i, j) ==
  StartsWithP(S.bullets[i].ownerId) /\ S.bullets[i].locked
OverlapsPlayer(S, i, j) ==
  /\ ~StartsWithP(S.bullets[i].ownerId)
  /\ j \in S.bullets[i].aim
  /\ S.bullets[i].lifeTime - 1 <= S.bullets[i].hitAt

Bump(flag) == IF flag THEN 1 ELSE 0

\* the counts of the pass after the turn of projectile i took S to T
Audit(S, T, i) ==
  LET spent == Spent(S, i)
      hurtP == \E j \in DOMAIN S.players : T.players[j].hp # S.players[j].hp
      hurtE == \E j \in DOMAIN S.enemies : T.enemies[j].hp # S.enemies[j].hp
      hurtC == \E j \in DOMAIN S.crates : T.crates[j].hp # S.crates[j].hp
      post == \/ \E j \in DOMAIN S.players :
                   S.players[j].dead /\ T.players[j].hp # S.players[j].hp
              \/ \E j \in DOMAIN S.enemies :
                   S.enemies[j].dead /\ T.enemies[j].hp # S.enemies[j].hp
              \/ \E j \in DOMAIN S.crates :
                   S.crates[j].dead /\ T.crates[j].hp # S.crates[j].hp
      onPlayer == \E j \in DOMAIN S.players :
                    ~S.players[j].dead /\ OverlapsPlayer(S, i, j)
      onCrate == \E j \in DOMAIN S.crates :
                   ~S.crates[j].dead /\ OverlapsCrate(S, i, j)
      corpse == \/ \E j \in DOMAIN S.players :
                     S.players[j].dead /\ OverlapsPlayer(S, i, j)
                \/ \E j \in DOMAIN S.enemies :
                     S.enemies[j].dead /\ OverlapsEnemy(S, i, j)
                \/ \E j \in DOMAIN S.crates :
                     S.crates[j].dead /\ OverlapsCrate(S, i, j)
      unsynced == \/ \E j \in DOMAIN T.crates :
                       T.crates[j].dead # (T.crates[j].hp <= 0)
                  \/ \E j \in DOMAIN T.enemies :
                       T.enemies[j].dead # (T.enemies[j].hp <= 0)
      a == S.audit
  IN IF T.players = S.players /\ T.enemies = S.enemies
        /\ T.crates = S.crates /\ T.pickups = S.pickups
     THEN \* the projectile changed no entity
          [a EXCEPT !.spent = @ + Bump(spent),
                    !.spentOnCrate = @ + Bump(spent /\ onCrate),
                    !.spentOnPlayer = @ + Bump(spent /\ onPlayer),
                    !.corpses = @ + Bump(~spent /\ corpse)]
     ELSE [hurt |-> a.hurt + Bump(hurtP \/ hurtE \/ hurtC),
           posthumous |-> a.posthumous + Bump(post),
           pierced |-> a.pierced + Bump((hurtP \/ hurtE \/ hurtC)
                                        /\ T.bullets[i].lifeTime > 0),
           spent |-> a.spent + Bump(spent),
           spentOnCrate |-> a.spentOnCrate + Bump(spent /\ onCrate),
           spentOnPlayer |-> a.spentOnPlayer + Bump(spent /\ onPlayer),
           ghostHits |-> a.ghostHits + Bump(spent),
           corpses |-> a.corpses + Bump(~spent /\ corpse),
           unsynced |-> a.unsynced + Bump(unsynced),
           crateHits |-> a.crateHits + Bump(hurtC)]

RECURSIVE BulletSteps(_, _, _, _)
BulletSteps(S, i, active, D) ==
  IF i > Len(S.bullets) THEN S
  ELSE CHOOSE R \in {BulletSteps([T EXCEPT !.audit = Audit(S, T, i)],
                                 i + 1, active, D) :
                       T \in {BulletStep(S, i, active, D)}} : TRUE

\* the pass without the filter of line 760
BulletPhaseNoPurge(S, active, D) ==
  CHOOSE R \in
    {[T EXCEPT !.enemies = SelectSeq(@, LAMBDA e : ~e.dead),
               !.kills = Len(T.enemies)
                           - Len(SelectSeq(T.enemies, LAMBDA e : ~e.dead)),
               !.award = [p \in Players |->
                            T.players[p].score - S.players[p].score]] :
       T \in {BulletSteps(S, 1, active, D)}} : TRUE

\* kills and award record what the pass did: the enemies it marked dead,
\* the score each player gained
BulletPhase(S, active, D) ==
  CHOOSE R \in
    {[T EXCEPT !.bullets = SelectSeq(@, LAMBDA b : b.lifeTime > 0),
               !.enemies = SelectSeq(@, LAMBDA e : ~e.dead),
               !.kills = Len(T.enemies)
                           - Len(SelectSeq(T.enemies, LAMBDA e : ~e.dead)),
               !.award = [p \in Players |->
                            T.players[p].score - S.players[p].score]] :
       T \in {BulletSteps(S, 1, active, D)}} : TRUE

(***************************************************************************)
(* update, lines 763-774: particles decay, the camera follows.             *)
(***************************************************************************)
\* particles[k] is the number of particles with k ticks left; a particle
\* pushed in this call has ParticleLife - 1 left after the decay
ParticlePhase(S) ==
  [S EXCEPT !.particles = [k \in 1..(ParticleLife - 1) |->
                             IF k = ParticleLife - 1 THEN S.fresh
                             ELSE S.particles[k + 1]],
            !.fresh = 0]

\* getCameraCenter: the camera moves towards the centre of the living
\* players, towards the origin when there is none
CameraPhase(S) == [S EXCEPT !.camera = Alive(S.players)]

\* update() past its two early returns
Simulate(S, keys, L, D) ==
  LET active == Alive(S.players)
      S1 == SpawnPhase(S, L, D)
      S2 == PlayerPhase(S1, keys, D.spread)
      S3 == InteractPhase(S2, D)
      S4 == EnemyPhase(S3, active, D)
      S5 == CrystalPhase(S4, active)
      S6 == BulletPhase(S5, active, D)
  IN CameraPhase(ParticlePhase(S6))

(***************************************************************************)
(* The draws one call of update() consumes.                                *)
(***************************************************************************)
EnemyDraws ==
  [enemyType : EnemyTypes, scale : EnemyScales, armor : EnemyArmor,
   inRange : ShooterRange]
CrateDraws ==
  [touch : IF scope = "combat" THEN CombatCrateTouch ELSE CrateTouch,
   delay : IF scope = "combat" THEN CombatCrateDelay ELSE CrateDelay,
   shot : CrateShot]
PickupDraws ==
  [weapon : PickupWeapons,
   near : IF scope = "combat" THEN CombatPickupNear ELSE PickupNear]
\* an enemy fires along its rotation, the angle towards its target
EnemyShot(aim, flight, wall) ==
  [aim |-> aim, flight |-> flight, wall |-> wall, locked |-> FALSE,
   rotation |-> Aimed, spread |-> 0]
Miss == EnemyShot({}, 0, FALSE)
BurstDraws == {Miss} \cup {EnemyShot(a[1], a[2], FALSE) : a \in BurstAims}
ShotDraws ==
  {EnemyShot({}, 0, w) : w \in Walls}
  \cup IF scope = "combat"
       THEN {EnemyShot(a[1], a[2], a[3]) : a \in CombatShots}
       ELSE {}

One(S) == {CHOOSE x \in S : TRUE}

\* Only the draws the call can consume are enumerated.
Draws(S, L) ==
  LET open == ~S.bossSpawned
      t == S.waveTimer + 1
      enemyDue == open /\ t % EnemyPeriod = 0
      shooterDue == enemyDue \/ \E i \in 1..Len(S.enemies) :
                      S.enemies[i].enemyType = "shooter"
                      /\ S.enemies[i].attackCooldown <= 0
      bossDue == (open /\ S.crystalsCollected >= CRYSTALS_TO_BOSS(L))
                 \/ \E i \in 1..Len(S.enemies) :
                      S.enemies[i].enemyType = "boss"
                      /\ S.enemies[i].attackCooldown <= 0
      crateDue == open /\ t % CratePeriod = 0
  IN [enemy : IF enemyDue THEN EnemyDraws ELSE One(EnemyDraws),
      crystal : IF open /\ t % CrystalPeriod = 0 THEN CrystalNear
                ELSE One(CrystalNear),
      crate : IF crateDue THEN CrateDraws ELSE One(CrateDraws),
      pickup : IF crateDue \/ S.crates # <<>> THEN PickupDraws
               ELSE One(PickupDraws),
      shot : IF shooterDue THEN ShotDraws ELSE {Miss},
      cooldown : IF shooterDue THEN ShooterCooldowns ELSE One(ShooterCooldowns),
      burst : IF bossDue THEN BurstDraws ELSE {Miss},
      spread : SpreadDraws]

(***************************************************************************)
(* update(): the two early returns, then the simulation.  The result says  *)
(* which callback the call invoked.                                        *)
(***************************************************************************)
\* a victory test that does not ask whether the boss was spawned
NoBossInRegistry(S) == ~HasBoss(S.enemies)

BossAbsent(S) == S.bossSpawned /\ ~HasBoss(S.enemies)

\* the two early returns in the other order
VictoryFirst(S) ==
  IF S.bossSpawned /\ ~HasBoss(S.enemies) THEN "levelComplete"
  ELSE IF Alive(S.players) = {} THEN "gameOver"
  ELSE "tick"

Outcome(S) ==
  IF Alive(S.players) = {} THEN "gameOver"
  ELSE IF BossAbsent(S) THEN "levelComplete"
  ELSE "tick"

\* update() without its first early return
updateWithoutDefeatCheck(S, keys, L, D) ==
  IF Alive(S.players) # {} /\ S.bossSpawned /\ ~HasBoss(S.enemies) THEN S
  ELSE Simulate(S, keys, L, D)

update(S, keys, L, D) ==
  IF Outcome(S) = "tick" THEN Simulate(S, keys, L, D) ELSE S

\* the ids of the living crates of a registry
LivingCrates(crates) ==
  {crates[j].id : j \in {k \in DOMAIN crates : ~crates[k].dead}}

\* the crates the call opened: alive when it started, or spawned by it,
\* and not alive when it returned
Opened(S, T) ==
  LET t == S.waveTimer + 1
      due == Outcome(S) = "tick" /\ ~S.bossSpawned
             /\ Len(S.crates) < CrateCap /\ t % CratePeriod = 0
  IN (LivingCrates(S.crates) \cup (IF due THEN {t} ELSE {}))
       \ LivingCrates(T.crates)

\* a player touches a crate that is in the registry with dead set
TouchedCorpse(S) ==
  /\ Outcome(S) = "tick"
  /\ \E j \in DOMAIN S.crates : \E p \in Alive(S.players) :
       /\ S.crates[j].dead /\ p \in S.crates[j].touch
       /\ S.waveTimer + 1 >= S.crates[j].touchAt

\* the crates that were in the registry with dead set when the call started
\* and have left it when it returned
Purged(S, T) ==
  {S.crates[j].id : j \in {k \in DOMAIN S.crates : S.crates[k].dead}}
    \ {T.crates[j].id : j \in DOMAIN T.crates}

\* what the call found and did, for the properties
Event(S, T, L) ==
  [kind |-> Outcome(S), active |-> Alive(S.players),
   bossGone |-> S.bossSpawned /\ ~HasBoss(S.enemies),
   countBefore |-> S.crystalsCollected, spawnedBefore |-> S.bossSpawned,
   threshold |-> 10 + LevelNumber(L) * 2,
   spawned |-> T.bossSpawns - S.bossSpawns,
   removed |-> T.removed, credit |-> T.credit,
   drops |-> T.drops, opened |-> Opened(S, T),
   touchedCorpse |-> TouchedCorpse(S), purged |-> Purged(S, T),
   kills |-> T.kills, award |-> T.award, audit |-> T.audit]

(***************************************************************************)
(* The refs as one record, and back.                                       *)
(***************************************************************************)
Sim ==
  [players |-> playersRef, enemies |-> enemiesRef, bullets |-> bulletsRef,
   particles |-> particlesRef, fresh |-> 0, crystals |-> crystalsRef,
   crates |-> cratesRef, pickups |-> pickupsRef,
   crystalsCollected |-> crystalsCollectedRef,
   bossSpawned |-> bossSpawnedRef, waveTimer |-> waveTimerRef,
   camera |-> cameraRef, bossSpawns |-> bossSpawns, snap |-> deathSnap,
   removed |-> 0, credit |-> [p \in Players |-> 0],
   drops |-> <<>>, kills |-> 0, award |-> [p \in Players |-> 0],
   audit |-> NoAudit]

Store(T) ==
  /\ playersRef' = T.players
  /\ enemiesRef' = T.enemies
  /\ bulletsRef' = T.bullets
  /\ particlesRef' = T.particles
  /\ crystalsRef' = T.crystals
  /\ cratesRef' = T.crates
  /\ pickupsRef' = T.pickups
  /\ crystalsCollectedRef' = T.crystalsCollected
  /\ bossSpawnedRef' = T.bossSpawned
  /\ waveTimerRef' = T.waveTimer
  /\ cameraRef' = T.camera
  /\ bossSpawns' = T.bossSpawns
  /\ deathSnap' = T.snap

\* initGame resets every registry and counter; the camera is left alone
initGame == FreshSim(cameraRef)

Rendered == [gameState |-> gameState, level |-> level, levelInfo |-> levelInfo]

\* handleGameOver, handleLevelComplete: setGameState
Callback(kind, q) ==
  IF kind = "gameOver" THEN [q EXCEPT !.gameState = "GAME_OVER"]
  ELSE IF kind = "levelComplete" THEN [q EXCEPT !.gameState = "VICTORY"]
  ELSE q

\* the exploration stops a session after its ticks, and at a tick that
\* leaves more than MaxEnemies enemies
TickBound(session) ==
  IF scope = "combat" THEN MaxCombatTicks
  ELSE IF scope = "env" THEN MaxEnvTicks
  ELSE IF session = 1 /\ startCalls = 1 THEN MaxTicks ELSE MaxReplayTicks

Explored(S, T, session) ==
  Outcome(S) = "tick" =>
    /\ S.waveTimer < TickBound(session)
    /\ Len(RegularEnemies(T.enemies)) <= MaxEnemies

\* loop(): update(), draw(), requestAnimationFrame(loop), run by the chain c
\* on the registries S
RunLoop(S, c, session, goCalls, lcCalls) ==
  \E D \in Draws(S, c.levelInfo) :
    \E T \in {update(S, keysPressed, c.levelInfo, D)} :
    LET kind == Outcome(S)
    IN /\ Explored(S, T, session)
       /\ Store(T)
       /\ ev' = Event(S, T, c.levelInfo)
       /\ gameOverCalls' = goCalls + (IF kind = "gameOver" THEN 1 ELSE 0)
       /\ levelCompleteCalls' = lcCalls + (IF kind = "levelComplete" THEN 1 ELSE 0)
       /\ queued' = Callback(kind, queued)
       /\ frameIdRef' = c.id

(***************************************************************************)
(* Init: App mounted at the menu, GameCanvas mounted, its effect has run   *)
(* with gameState MENU.                                                    *)
(***************************************************************************)
Mounted ==
  /\ gameState = "MENU"
  /\ level = 1
  /\ levelInfo = NULL
  /\ startCalls = 0
  /\ queued = [gameState |-> "MENU", level |-> 1, levelInfo |-> NULL]
  /\ generating = {}
  /\ effectPending = FALSE
  /\ playersRef = <<>>
  /\ enemiesRef = <<>>
  /\ bulletsRef = <<>>
  /\ particlesRef = NoParticles
  /\ crystalsRef = <<>>
  /\ cratesRef = <<>>
  /\ pickupsRef = <<>>
  /\ keysPressed = {}
  /\ cameraRef = {}
  /\ frameIdRef = 0
  /\ waveTimerRef = 0
  /\ bossSpawnedRef = FALSE
  /\ crystalsCollectedRef = 0
  /\ scheduled = {}
  /\ sessionId = 0
  /\ gameOverCalls = 0
  /\ levelCompleteCalls = 0
  /\ bossSpawns = 0
  /\ deathSnap = [p \in Players |-> NULL]
  /\ ev = NoEvent
  /\ lag = 0

Init == Mounted /\ scope = "session" /\ probe = NULL

\* the same program, explored under "combat"
InitCombat == Mounted /\ scope = "combat" /\ probe = NULL

(***************************************************************************)
(* App: startGame and the buttons.                                         *)
(***************************************************************************)
\* a startGame that does not await generateLevelInfo
startGameNoAwait(q, lv) ==
  /\ startCalls < MaxStarts
  /\ startCalls' = startCalls + 1
  /\ queued' = [q EXCEPT !.gameState = "PLAYING"]
  /\ generating' = generating

\* startGame up to its await; lv is the level of the render whose closure
\* the click runs
startGame(q, lv) ==
  /\ startCalls < MaxStarts
  /\ startCalls' = startCalls + 1
  /\ queued' = [q EXCEPT !.gameState = "LOADING_LEVEL"]
  /\ generating' = generating \cup
                     {[id |-> startCalls + 1, level |-> lv, stage |-> "await"]}

\* generateLevelInfo: levelNumber is the level asked for, on both paths
generateLevelInfo(lv, id) == [levelNumber |-> lv, id |-> id]

ClickStart ==
  /\ gameState = "MENU"
  /\ startGame(queued, level)
  /\ UNCHANGED <<gameState, level, levelInfo, effectPending, simVars,
                 keysPressed, frameIdRef, scheduled, histVars>>

\* handleNextLevel: setLevel(prev => prev + 1); startGame()
ClickNextLevel ==
  /\ gameState = "VICTORY" /\ levelInfo # NULL
  /\ startGame([queued EXCEPT !.level = @ + 1], level)
  /\ UNCHANGED <<gameState, level, levelInfo, effectPending, simVars,
                 keysPressed, frameIdRef, scheduled, histVars>>

\* handleRestart: setLevel(1); startGame()
ClickRestart ==
  /\ gameState = "GAME_OVER"
  /\ startGame([queued EXCEPT !.level = 1], level)
  /\ UNCHANGED <<gameState, level, levelInfo, effectPending, simVars,
                 keysPressed, frameIdRef, scheduled, histVars>>

\* startGame after the await: setLevelInfo(info)
ResolveGenerate ==
  \E g \in generating :
    /\ g.stage = "await"
    /\ queued' = [queued EXCEPT !.levelInfo = generateLevelInfo(g.level, g.id)]
    /\ generating' = (generating \ {g}) \cup {[g EXCEPT !.stage = "resolved"]}
    /\ UNCHANGED <<gameState, level, levelInfo, startCalls, effectPending,
                   simVars, keysPressed, frameIdRef, scheduled, histVars>>

\* startGame, last statement: setGameState(PLAYING)
FinishStart ==
  \E g \in generating :
    /\ g.stage = "resolved"
    /\ queued' = [queued EXCEPT !.gameState = "PLAYING"]
    /\ generating' = generating \ {g}
    /\ UNCHANGED <<gameState, level, levelInfo, startCalls, effectPending,
                   simVars, keysPressed, frameIdRef, scheduled, histVars>>

\* React renders the queued updates; the GameCanvas effect is scheduled when
\* one of its dependencies [gameState, levelInfo] changed.  Effects of a
\* render are flushed before the next render.
Render ==
  /\ queued # Rendered
  /\ ~effectPending
  /\ gameState' = queued.gameState
  /\ level' = queued.level
  /\ levelInfo' = queued.levelInfo
  /\ effectPending' = (queued.gameState # gameState
                       \/ queued.levelInfo # levelInfo)
  /\ UNCHANGED <<startCalls, queued, generating, simVars, keysPressed,
                 frameIdRef, scheduled, histVars>>

(***************************************************************************)
(* GameCanvas: the effect on [gameState, levelInfo], the frame callback,   *)
(* the key handlers.                                                       *)
(***************************************************************************)
\* a cleanup that cancels nothing
cancelNothing(requests, frameId) == requests

\* cancelAnimationFrame(frameIdRef.current).  A pending request is named by
\* the session whose loop made it; frameIdRef names the last request made.
cancelAnimationFrame(requests, frameId) == {c \in requests : c.id # frameId}

\* The cleanup of the previous run, then the effect body: initGame() when
\* PLAYING, whose last statement loop() runs update() once and requests the
\* first frame.  The loop closes over the levelInfo of this render.
FlushEffects ==
  /\ effectPending
  /\ effectPending' = FALSE
  /\ IF gameState = "PLAYING"
     THEN LET c == [id |-> sessionId + 1, levelInfo |-> levelInfo] IN
          /\ sessionId < MaxSessions
          /\ sessionId' = sessionId + 1
          /\ RunLoop(initGame, c, sessionId + 1, 0, 0)
          /\ scheduled' = cancelAnimationFrame(scheduled, frameIdRef) \cup {c}
     ELSE /\ scheduled' = cancelAnimationFrame(scheduled, frameIdRef)
          /\ UNCHANGED <<queued, simVars, frameIdRef, sessionId,
                         gameOverCalls, levelCompleteCalls, bossSpawns,
                         deathSnap, ev>>
  /\ UNCHANGED <<gameState, level, levelInfo, startCalls, generating,
                 keysPressed, lag, scope, probe>>

\* App has work pending
Busy == generating # {} \/ queued # Rendered \/ effectPending

\* The browser runs a requested frame: loop() of the chain that asked.
Frame ==
  \E c \in scheduled :
    /\ ~Busy \/ lag < MaxLag
    /\ lag' = IF Busy THEN lag + 1 ELSE 0
    /\ RunLoop(Sim, c, sessionId, gameOverCalls, levelCompleteCalls)
    /\ scheduled' = (scheduled \ {c}) \cup {c}
    /\ UNCHANGED <<gameState, level, levelInfo, startCalls, generating,
                   effectPending, keysPressed, sessionId, scope, probe>>

\* handleKeyDown / handleKeyUp; the keys are settled before the first
\* session and held
KeyDown(k) ==
  /\ sessionId = 0
  /\ keysPressed' = keysPressed \cup {k}
  /\ UNCHANGED <<appVars, simVars, frameIdRef, scheduled, histVars>>

KeyUp(k) ==
  /\ sessionId = 0
  /\ keysPressed' = keysPressed \ {k}
  /\ UNCHANGED <<appVars, simVars, frameIdRef, scheduled, histVars>>

Next ==
  \/ ClickStart
  \/ ClickNextLevel
  \/ ClickRestart
  \/ ResolveGenerate
  \/ FinishStart
  \/ Render
  \/ FlushEffects
  \/ Frame
  \/ \E k \in Keys : KeyDown(k)
  \/ \E k \in Keys : KeyUp(k)

Spec == Init /\ [][Next]_vars

\* One session: the menu's start button, then the frames.  No session of
\* MaxCombatTicks ticks ends, so the buttons of the end panels stay out.
NextCombat ==
  \/ ClickStart
  \/ ResolveGenerate
  \/ FinishStart
  \/ Render
  \/ FlushEffects
  \/ Frame
  \/ \E k \in Keys : KeyDown(k)
  \/ \E k \in Keys : KeyUp(k)

SpecCombat == InitCombat /\ [][NextCombat]_vars

(***************************************************************************)
(* The procedural environment.  Lengths are in thousandths of a unit, the  *)
(* hash value of a cell in millionths.                                     *)
(***************************************************************************)
Milli(x) == x * 1000
Abs(x) == IF x < 0 THEN -x ELSE x
GRID_CELL_SIZE == Milli(200)

\* The hash of lines 237-244 for the cells gx, gy in -3..3, gx by gx:
\* val = |seed - floor(seed)|, jitterX = cos(seed * 11) * 80 and
\* jitterY = sin(seed * 22) * 80 with seed = sin(gx * 12.9898 + gy * 78.233)
\* * 43758.5453, evaluated in double precision and rounded.
HashVal ==
  << 96708, 664798, 545251, 441777, 674661, 180525, 641172,
     703528, 635768, 435605, 942782, 644283, 393627, 354245,
     580100, 926096, 259915, 78310, 256803, 687879, 769344,
     730565, 972895, 817084, 0, 182916, 27105, 269435,
     230656, 312121, 743197, 921690, 740085, 73904, 419900,
     645755, 606373, 355717, 57218, 564395, 364232, 296472,
     358828, 819475, 325339, 558223, 454749, 335202, 903292 >>
HashJitterX ==
  << 8275, 45884, 79652, 39417, 1219, -3893, -77332,
     -78073, -79809, 51120, 28339, 28106, -26524, 46653,
     -72637, -75752, -20383, -78805, 4802, 69711, -57828,
     -79992, 24068, -55042, 80000, -55042, 24068, -79992,
     -57828, 69711, 4802, -78805, -20383, -75752, -72637,
     46653, -26524, 28106, 28339, 51120, -79809, -78073,
     -77332, -3893, 1219, 39417, 79652, 45884, 8275 >>
HashJitterY ==
  << 16461, -75174, 14837, -68600, -2438, 7777, -39608,
     -34067, -11021, -78644, -53003, -52629, -50048, -75798,
     60878, -48713, -39421, -27144, -9587, -68399, -79919,
     -2242, 45907, -79887, 0, 79887, -45907, 2242,
     79919, 68399, 9587, 27144, 39421, 48713, -60878,
     75798, 50048, 52629, 53003, 78644, 11021, 34067,
     39608, -7777, 2438, 68600, -14837, 75174, -16461 >>

Hash(gx, gy) ==
  LET k == (gx + 3) * 7 + (gy + 3) + 1
  IN [val |-> HashVal[k], jitterX |-> HashJitterX[k],
      jitterY |-> HashJitterY[k]]

\* getEnvironmentAt without the test of the spawn safe zone
ObstacleAnywhere(gx, gy, h) ==
  LET cx == gx * GRID_CELL_SIZE + GRID_CELL_SIZE \div 2
      cy == gy * GRID_CELL_SIZE + GRID_CELL_SIZE \div 2
      pos == <<cx + h.jitterX, cy + h.jitterY>>
  IN IF h.val > 850000
     THEN [id |-> <<"b", gx, gy>>, type |-> "building", pos |-> pos,
           size |-> <<IF h.val > 950000 THEN Milli(180) ELSE Milli(120),
                      Milli(100) + (h.val * 50) \div 1000>>,
           color |-> IF h.val > 920000 THEN "#1f2937" ELSE "#374151"]
     ELSE IF h.val > 300000
          THEN [id |-> <<"t", gx, gy>>, type |-> "tree", pos |-> pos,
                size |-> <<Milli(40) + (h.val * 40) \div 1000, 0>>,
                color |-> IF h.val > 600000 THEN "#166534" ELSE "#15803d"]
          ELSE NULL

\* getEnvironmentAt, lines 240-263, on the hash h of the cell
Obstacle(gx, gy, h) ==
  LET cx == gx * GRID_CELL_SIZE + GRID_CELL_SIZE \div 2
      cy == gy * GRID_CELL_SIZE + GRID_CELL_SIZE \div 2
      pos == <<cx + h.jitterX, cy + h.jitterY>>
  IN IF Abs(gx) < 2 /\ Abs(gy) < 2 THEN NULL
     ELSE IF h.val > 850000
          THEN [id |-> <<"b", gx, gy>>, type |-> "building", pos |-> pos,
                size |-> <<IF h.val > 950000 THEN Milli(180) ELSE Milli(120),
                           Milli(100) + (h.val * 50) \div 1000>>,
                color |-> IF h.val > 920000 THEN "#1f2937" ELSE "#374151"]
          ELSE IF h.val > 300000
               THEN [id |-> <<"t", gx, gy>>, type |-> "tree", pos |-> pos,
                     size |-> <<Milli(40) + (h.val * 40) \div 1000, 0>>,
                     color |-> IF h.val > 600000 THEN "#166534" ELSE "#15803d"]
               ELSE NULL

\* an obstacle whose jitter follows the wave timer
getEnvironmentAtTimed(gx, gy) ==
  Obstacle(gx, gy, [Hash(gx, gy) EXCEPT !.jitterX = @ + waveTimerRef])

getEnvironmentAt(gx, gy) == Obstacle(gx, gy, Hash(gx, gy))

\* the cells getEnvironmentInRect visits, in the order of its two loops;
\* halo is the 1 of startX - 1, endX + 1, startY - 1, endY + 1
CellsInRect(x, y, w, h, halo) ==
  LET startX == (x - w \div 2) \div GRID_CELL_SIZE
      endX == (x + w \div 2) \div GRID_CELL_SIZE
      startY == (y - h \div 2) \div GRID_CELL_SIZE
      endY == (y + h \div 2) \div GRID_CELL_SIZE
      nx == (endX + halo) - (startX - halo) + 1
      ny == (endY + halo) - (startY - halo) + 1
  IN [k \in 1..(nx * ny) |->
        <<startX - halo + ((k - 1) \div ny), startY - halo + ((k - 1) % ny)>>]

\* the query without the halo
getEnvironmentInRectNoHalo(x, y, w, h) ==
  LET cells == CellsInRect(x, y, w, h, 0)
      found == [k \in DOMAIN cells |-> getEnvironmentAt(cells[k][1], cells[k][2])]
  IN SelectSeq(found, LAMBDA obj : obj # NULL)

getEnvironmentInRect(x, y, w, h) ==
  LET cells == CellsInRect(x, y, w, h, 1)
      found == [k \in DOMAIN cells |-> getEnvironmentAt(cells[k][1], cells[k][2])]
  IN SelectSeq(found, LAMBDA obj : obj # NULL)

(***************************************************************************)
(* Arithmetic on lengths.  Products are kept below 2^31: an operand of     *)
(* 30 units or more is first cut to tenths of a unit.                      *)
(***************************************************************************)
Sgn(x) == IF x < 0 THEN -1 ELSE 1
Max(a, b) == IF a > b THEN a ELSE b
Min(a, b) == IF a < b THEN a ELSE b

RECURSIVE ISqrtIn(_, _, _)
ISqrtIn(n, lo, hi) ==
  IF lo >= hi THEN lo
  ELSE LET mid == (lo + hi + 1) \div 2
       IN IF mid * mid <= n THEN ISqrtIn(n, mid, hi) ELSE ISqrtIn(n, lo, mid - 1)
\* floor of the square root
ISqrt(n) == ISqrtIn(n, 0, 46340)

\* Math.hypot
Hypot(dx, dy) ==
  IF Abs(dx) < 30000 /\ Abs(dy) < 30000
  THEN ISqrt(dx * dx + dy * dy)
  ELSE 100 * ISqrt((Abs(dx) \div 100) * (Abs(dx) \div 100)
                   + (Abs(dy) \div 100) * (Abs(dy) \div 100))

\* a * b / c, rounded towards zero
MulDiv(a, b, c) ==
  IF Abs(a) < 30000 /\ Abs(b) < 30000
  THEN Sgn(a) * Sgn(b) * ((Abs(a) * Abs(b)) \div c)
  ELSE Sgn(a) * Sgn(b) * (((Abs(a) \div 100) * Abs(b)) \div Max(c \div 100, 1))

\* (cos, sin)(atan2(dy, dx)) * push, where dist = hypot(dx, dy);
\* atan2(0, 0) is 0
Push(dx, dy, dist, push) ==
  IF dist = 0 THEN <<push, 0>>
  ELSE <<MulDiv(dx, push, dist), MulDiv(dy, push, dist)>>

(***************************************************************************)
(* checkEnvironmentCollision, lines 414-446, on an entity [pos, vel,       *)
(* radius].                                                                *)
(***************************************************************************)
\* the point of the rectangle of a building nearest to pos
Clamp(pos, env) ==
  LET halfW == env.size[1] \div 2
      halfH == env.size[2] \div 2
  IN <<Max(env.pos[1] - halfW, Min(pos[1], env.pos[1] + halfW)),
       Max(env.pos[2] - halfH, Min(pos[2], env.pos[2] + halfH))>>

\* the body of the loop of lines 416-445 for one obstacle
Resolve(entity, env) ==
  IF env.type = "tree"
  THEN LET dx == entity.pos[1] - env.pos[1]
           dy == entity.pos[2] - env.pos[2]
           dist == Hypot(dx, dy)
           minDist == env.size[1] + entity.radius
           d == Push(dx, dy, dist, minDist - dist)
       IN IF dist < minDist
          THEN [entity EXCEPT !.pos = <<@[1] + d[1], @[2] + d[2]>>,
                              !.vel = <<MulDiv(@[1], 8, 10), MulDiv(@[2], 8, 10)>>]
          ELSE entity
  ELSE LET c == Clamp(entity.pos, env)
           dx == entity.pos[1] - c[1]
           dy == entity.pos[2] - c[2]
           dist == Hypot(dx, dy)
           d == Push(dx, dy, dist, entity.radius - dist)
       IN IF dist < entity.radius
          THEN [entity EXCEPT !.pos = <<@[1] + d[1], @[2] + d[2]>>,
                              !.vel = <<MulDiv(@[1], 5, 10), MulDiv(@[2], 5, 10)>>]
          ELSE entity

RECURSIVE ResolveAll(_, _, _)
ResolveAll(entity, nearby, k) ==
  IF k > Len(nearby) THEN entity
  ELSE ResolveAll(Resolve(entity, nearby[k]), nearby, k + 1)

checkEnvironmentCollision(entity) ==
  ResolveAll(entity,
             getEnvironmentInRect(entity.pos[1], entity.pos[2],
                                  Milli(300), Milli(300)),
             1)

(***************************************************************************)
(* update, lines 524-577: the motion of a player.  A body is the pos, vel  *)
(* and radius of the player, its rotation and its weapon.                  *)
(***************************************************************************)
ACCELERATION == 600
FRICTION == 88
MAX_SPEED == 6000

MoveKeys(p) ==
  IF p = 1
  THEN [up |-> "KeyW", down |-> "KeyS", left |-> "KeyA", right |-> "KeyD"]
  ELSE [up |-> "ArrowUp", down |-> "ArrowDown", left |-> "ArrowLeft",
        right |-> "ArrowRight"]

\* a force that does not read the keys: the player always pushes right
ForceAlways(p, keys) == <<ACCELERATION, 0>>

Force(p, keys) ==
  LET k == MoveKeys(p)
      On(key) == IF key \in keys THEN ACCELERATION ELSE 0
  IN <<On(k.right) - On(k.left), On(k.down) - On(k.up)>>

\* atan2(force.y, force.x) of a force along one axis
ForceRotation(force) ==
  CASE force[1] > 0 /\ force[2] = 0 -> Facing(0)
    [] force[1] = 0 /\ force[2] > 0 -> Facing(1)
    [] force[1] < 0 /\ force[2] = 0 -> Facing(2)
    [] force[1] = 0 /\ force[2] < 0 -> Facing(3)

\* the recoil of fireWeapon, lines 460, 472, 479, 491; the laser has none
Recoil(weapon) ==
  CASE weapon = "sniper" -> 8000
    [] weapon = "shotgun" -> 6000
    [] weapon = "minigun" -> 500
    [] weapon = "laser" -> 0
    [] OTHER -> 1000

InitialBodies ==
  [p \in Players |->
     [pos |-> IF p = 1 THEN <<Milli(-50), 0>> ELSE <<Milli(50), 0>>,
      vel |-> <<0, 0>>,
      radius |-> IF p = 1 THEN Milli(20) ELSE Milli(18),
      rotation |-> InitialPlayers[p].rotation,
      weapon |-> InitialPlayers[p].weapon]]

\* the body of player p after its turn in a tick without enemies; fired
\* says whether the turn called fireWeapon
MoveBody(body, p, keys, fired) ==
  LET force == Force(p, keys)
      rotation == IF force # <<0, 0>> THEN ForceRotation(force)
                  ELSE body.rotation
      kick == IF fired THEN Recoil(body.weapon) ELSE 0
      v0 == <<body.vel[1] - CosQ(rotation.quarter) * kick,
              body.vel[2] - SinQ(rotation.quarter) * kick>>
      v1 == <<MulDiv(v0[1] + force[1], FRICTION, 100),
              MulDiv(v0[2] + force[2], FRICTION, 100)>>
      currSpeed == Hypot(v1[1], v1[2])
      v2 == IF currSpeed > MAX_SPEED
            THEN <<MulDiv(v1[1], MAX_SPEED, currSpeed),
                   MulDiv(v1[2], MAX_SPEED, currSpeed)>>
            ELSE v1
      moved == [body EXCEPT !.rotation = rotation, !.vel = v2,
                            !.pos = <<@[1] + v2[1], @[2] + v2[2]>>]
      placed == checkEnvironmentCollision([pos |-> moved.pos, vel |-> moved.vel,
                                           radius |-> moved.radius])
  IN [moved EXCEPT !.pos = placed.pos, !.vel = placed.vel]

(***************************************************************************)
(* One call of a function on drawn arguments.  probe holds the function,   *)
(* its arguments and, after the call, its result; the components stay      *)
(* mounted at the menu.                                                    *)
(***************************************************************************)
sessionVars == <<sessionId, gameOverCalls, levelCompleteCalls, bossSpawns,
                 deathSnap, ev, lag, scope>>
Idle == UNCHANGED <<appVars, simVars, keysPressed, frameIdRef, scheduled,
                    sessionVars>>
Pending(fn) == scope = "probe" /\ probe.fn = fn /\ probe.out = NULL
Returned(fn) == scope = "probe" /\ probe.fn = fn /\ probe.out # NULL

\* fireWeapon(p): the player is one of the two of initGame, with any weapon
\* a pickup can give, turned by the keys or by the auto aim
ProbeWeapons == {"sniper", "shotgun", "minigun", "laser", "ak47"}
ProbeRotations == {Facing(q) : q \in 0..3} \cup {Aimed}
ProbeSpreads == {-500, 0, 250}
FireCalls ==
  [fn : {"fireWeapon"}, p : Players, weapon : ProbeWeapons,
   rotation : ProbeRotations, r : ProbeSpreads, out : {NULL}]

ProbeFire ==
  /\ Pending("fireWeapon")
  /\ LET S == [FreshSim({}) EXCEPT
                 !.players[probe.p].weapon = probe.weapon,
                 !.players[probe.p].rotation = probe.rotation]
         T == fireWeapon(S, probe.p, probe.r)
     IN probe' = [probe EXCEPT !.out = [bullets |-> T.bullets,
                                        player |-> T.players[probe.p],
                                        sparks |-> T.fresh]]
  /\ Idle

\* update() on the state initGame leaves, with the keys held
ProbeKeySets ==
  {{}, {"KeyD"}, {"ArrowUp"}, {"Space"}, {"Enter"}, {"KeyA", "Space"},
   {"ArrowDown", "Enter"}, {"KeyW", "ArrowLeft"}}
TickCalls == [fn : {"update"}, keys : ProbeKeySets, out : {NULL}]

ProbeTick ==
  /\ Pending("update")
  /\ LET S == FreshSim({})
         fired(p) == FireKey(p) \in probe.keys /\ S.players[p].cooldown <= 0
     IN \E D \in Draws(S, NULL) :
          LET T == update(S, probe.keys \cap Keys, NULL, D)
          IN probe' = [probe EXCEPT !.out =
                         [bullets |-> T.bullets, waveTimer |-> T.waveTimer,
                          bodies |-> [p \in Players |->
                                        MoveBody(InitialBodies[p], p,
                                                 probe.keys, fired(p))]]]
  /\ Idle

\* one resolution against the building of cell (-2, 0): the entity is put
\* at an offset from the centre of the building
ProbeBuilding == getEnvironmentAt(-2, 0)
ProbeOffsets ==
  LET halfW == ProbeBuilding.size[1] \div 2
      halfH == ProbeBuilding.size[2] \div 2
  IN {<<halfW + 5000, 0>>, <<-halfW - 12000, 1000>>, <<0, halfH + 17000>>,
      <<halfW + 6000, halfH + 8000>>, <<-halfW - 9000, -halfH - 12000>>,
      <<halfW + 25000, 0>>, <<0, 0>>, <<halfW - 5000, 0>>,
      <<-halfW + 5000, 3000>>}
ProbeRadii == {18000, 20000}
ProbeVels == {<<0, 0>>, <<4000, -2000>>, <<-3000, 5000>>}
ResolveCalls ==
  [fn : {"Resolve"}, offset : ProbeOffsets, radius : ProbeRadii,
   vel : ProbeVels, out : {NULL}]

ProbeEntity ==
  [pos |-> <<ProbeBuilding.pos[1] + probe.offset[1],
             ProbeBuilding.pos[2] + probe.offset[2]>>,
   vel |-> probe.vel, radius |-> probe.radius]

ProbeResolve ==
  /\ Pending("Resolve")
  /\ probe' = [probe EXCEPT !.out = Resolve(ProbeEntity, ProbeBuilding)]
  /\ Idle

\* the decision of getEnvironmentAt on a cell and a hash value
ProbeCells == -2..2
ProbeVals ==
  {0, 150000, 300000, 300001, 600001, 850000, 850001, 920001, 950001, 999999}
ObstacleCalls ==
  [fn : {"Obstacle"}, gx : ProbeCells, gy : ProbeCells, val : ProbeVals,
   out : {NULL}]

ProbeObstacle ==
  /\ Pending("Obstacle")
  /\ probe' = [probe EXCEPT !.out =
                 [obj |-> Obstacle(probe.gx, probe.gy,
                                   [val |-> probe.val, jitterX |-> 0,
                                    jitterY |-> 0])]]
  /\ Idle

\* getEnvironmentInRect on rectangles whose cells lie in -3..3
RectCentres == {Milli(-250), Milli(-50), 0, Milli(50), Milli(200), 399999}
RectSizes == {0, Milli(100), Milli(300)}
RectCalls ==
  [fn : {"getEnvironmentInRect"}, x : RectCentres, y : RectCentres,
   w : RectSizes, h : RectSizes, out : {NULL}]

ProbeRect ==
  /\ Pending("getEnvironmentInRect")
  /\ probe' = [probe EXCEPT !.out =
                 [objs |-> getEnvironmentInRect(probe.x, probe.y,
                                                probe.w, probe.h)]]
  /\ Idle

(***************************************************************************)
(* generateLevelInfo, geminiService.ts lines 6-47, on the reply of the     *)
(* generation call.  A JavaScript value is a record tagged by its type.    *)
(***************************************************************************)
Undefined == [t |-> "undefined"]
JNull == [t |-> "null"]
Str(s) == [t |-> "string", s |-> s]
Num(n) == [t |-> "number", n |-> n]
LevelFields == {"biomeName", "description", "bossName", "bossDescription"}

\* v || w
OrElse(v, w) ==
  IF v \in {Undefined, JNull, Str(""), Num(0)} THEN w ELSE v

\* The reply of ai.models.generateContent: the call throws, or returns a
\* response whose text is undefined, or a string: empty, no JSON, the JSON
\* null, a JSON number, or a JSON object with some of the four fields.
ReplyForms == {"throws", "undefined", "empty", "garbage", "null", "number"}
FieldValues == {Undefined, JNull, Str(""), Str("Glass Mire"), Num(7)}
Replies ==
  [form : ReplyForms] \cup [form : {"object"}, fields : [LevelFields -> FieldValues]]

\* JSON.parse(response.text || "{}"): the value, or thrown
ParseJSON(reply) ==
  CASE reply.form \in {"undefined", "empty"} ->
         [thrown |-> FALSE, t |-> "object",
          fields |-> [f \in LevelFields |-> Undefined]]
    [] reply.form = "garbage" -> [thrown |-> TRUE]
    [] reply.form = "null" -> [thrown |-> FALSE, t |-> "null"]
    [] reply.form = "number" ->
         [thrown |-> FALSE, t |-> "number",
          fields |-> [f \in LevelFields |-> Undefined]]
    [] reply.form = "object" ->
         [thrown |-> FALSE, t |-> "object", fields |-> reply.fields]

\* the record of the catch block, lines 39-45
DefaultLevelInfo(lv) ==
  [levelNumber |-> lv,
   biomeName |-> Str("Sector " \o ToString(lv) \o "-Z"),
   description |-> Str("Communications offline. Terrain data unavailable. Proceed with caution."),
   bossName |-> Str("Omega Construct"),
   bossDescription |-> Str("An unidentifiable massive energy signature detected.")]

\* the function without its catch block
generateLevelInfoNoCatch(lv, reply) ==
  LET data == ParseJSON(reply)
  IN IF reply.form = "throws" \/ data.thrown \/ data.t = "null"
     THEN [rejected |-> TRUE]
     ELSE [rejected |-> FALSE,
           info |-> [levelNumber |-> lv,
                     biomeName |-> OrElse(data.fields.biomeName,
                                          Str("Sector " \o ToString(lv))),
                     description |-> OrElse(data.fields.description,
                        Str("A desolate wasteland filled with unknown threats.")),
                     bossName |-> OrElse(data.fields.bossName, Str("The Guardian")),
                     bossDescription |-> OrElse(data.fields.bossDescription,
                        Str("A massive construct of ancient metal."))]]

\* what the promise of generateLevelInfo(lv) settles to.  Reading a
\* property of null throws a TypeError inside the try block.
generateLevelInfoOn(lv, reply) ==
  LET data == ParseJSON(reply)
  IN IF reply.form = "throws" \/ data.thrown \/ data.t = "null"
     THEN [rejected |-> FALSE, info |-> DefaultLevelInfo(lv)]
     ELSE [rejected |-> FALSE,
           info |-> [levelNumber |-> lv,
                     biomeName |-> OrElse(data.fields.biomeName,
                                          Str("Sector " \o ToString(lv))),
                     description |-> OrElse(data.fields.description,
                        Str("A desolate wasteland filled with unknown threats.")),
                     bossName |-> OrElse(data.fields.bossName, Str("The Guardian")),
                     bossDescription |-> OrElse(data.fields.bossDescription,
                        Str("A massive construct of ancient metal."))]]

ProbeLevels == 1..2
LevelCalls ==
  [fn : {"generateLevelInfo"}, level : ProbeLevels, reply : Replies,
   out : {NULL}]

ProbeLevel ==
  /\ Pending("generateLevelInfo")
  /\ probe' = [probe EXCEPT !.out = generateLevelInfoOn(probe.level, probe.reply)]
  /\ Idle

\* the spawn policy of update() on registries at and below their caps, at
\* and off the spawn ticks, before the boss is due, when it is due and
\* after it has spawned
Stocked(timer, ne, nc, nk, boss) ==
  LET F(t) == [FreshSim({}) EXCEPT !.waveTimer = t]
      regular == [k \in 1..ne |->
                    spawnEnemy(F(k), FALSE, NULL,
                               CHOOSE d \in EnemyDraws : TRUE).enemies[1]]
  IN [FreshSim({}) EXCEPT
        !.waveTimer = timer,
        !.enemies = IF boss = "alive"
                    THEN spawnEnemy([F(timer) EXCEPT !.enemies = regular],
                                    TRUE, NULL, NULL).enemies
                    ELSE regular,
        !.crystals = [k \in 1..nc |->
                        spawnCrystal(F(k), CHOOSE d \in CrystalNear : TRUE).crystals[1]],
        !.crates = [k \in 1..nk |->
                      spawnCrate(F(k), CHOOSE d \in CrateDraws : TRUE).crates[1]],
        !.bossSpawned = (boss = "alive"),
        !.bossSpawns = IF boss = "alive" THEN 1 ELSE 0,
        !.crystalsCollected = IF boss = "none" THEN 0 ELSE CRYSTALS_TO_BOSS(NULL)]

SpawnCalls ==
  [fn : {"SpawnPhase"}, timer : {58, 59, 119, 299, 599, 600},
   enemies : {0, EnemyCap - 1, EnemyCap}, crystals : {CrystalCap - 1, CrystalCap},
   crates : {CrateCap - 1, CrateCap}, boss : {"none", "due", "alive"},
   out : {NULL}]

ProbeSpawn ==
  /\ Pending("SpawnPhase")
  /\ LET S == Stocked(probe.timer, probe.enemies, probe.crystals,
                      probe.crates, probe.boss)
     IN \E D \in Draws(S, NULL) : \E T \in {SpawnPhase(S, NULL, D)} :
          probe' = [probe EXCEPT !.out =
                      [waveTimer |-> T.waveTimer,
                       enemies |-> Len(RegularEnemies(T.enemies)),
                       bosses |-> Len(T.enemies) - Len(RegularEnemies(T.enemies)),
                       crystals |-> Len(T.crystals), crates |-> Len(T.crates),
                       bossSpawned |-> T.bossSpawned]]
  /\ Idle

\* the enemy AI of update() on one enemy, tick after tick while a player
\* lives: what each tick added to the projectiles and did to the attack
\* cooldown
ProbeTicks == 125
LoneEnemy(enemyType, cooldown, inRange) ==
  LET made == IF enemyType = "boss"
              THEN spawnEnemy(FreshSim({}), TRUE, NULL, NULL)
              ELSE spawnEnemy(FreshSim({}), FALSE, NULL,
                              [enemyType |-> enemyType, scale |-> 10,
                               armor |-> FALSE, inRange |-> inRange])
  IN [made EXCEPT !.enemies[1].attackCooldown = cooldown]

EnemyCalls ==
  [fn : {"EnemyPhase"}, enemyType : {"walker", "shooter", "boss"},
   cooldown : {0, 3}, inRange : BOOLEAN, active : {{1}, {2}, {1, 2}},
   wait : ShooterCooldowns \cup {119}, out : {NULL}]

ProbeEnemy ==
  /\ scope = "probe" /\ probe.fn = "EnemyPhase"
  /\ IF probe.out = NULL THEN TRUE ELSE Len(probe.out.log) < ProbeTicks
  /\ \E S \in {IF probe.out = NULL
               THEN LoneEnemy(probe.enemyType, probe.cooldown, probe.inRange)
               ELSE probe.out.sim} :
       \E T \in {EnemyPhase(S, probe.active,
                            [shot |-> Miss, burst |-> Miss,
                             cooldown |-> probe.wait])} :
         probe' = [probe EXCEPT !.out =
           [sim |-> [T EXCEPT !.bullets = <<>>],
            log |-> (IF probe.out = NULL THEN <<>> ELSE probe.out.log)
                      \o <<[added |-> T.bullets,
                            before |-> S.enemies[1].attackCooldown,
                            after |-> T.enemies[1].attackCooldown]>>]]
  /\ Idle

\* update, lines 608-617: the target of enemy e among activePlayers, the
\* living players in registry order, and the vector from e to it.  minDist
\* starts at Infinity (far); e.targetId is neither read nor written.
RECURSIVE NearestFrom(_, _, _, _, _)
NearestFrom(e, activePlayers, pos, k, best) ==
  IF k > Len(activePlayers) THEN best
  ELSE LET p == activePlayers[k]
           d == Hypot(pos[p][1] - e.pos[1], pos[p][2] - e.pos[2])
       IN NearestFrom(e, activePlayers, pos, k + 1,
                      IF best.far \/ d < best.minDist
                      THEN [target |-> p, far |-> FALSE, minDist |-> d]
                      ELSE best)

\* a target kept in e.targetId from the tick that first resolved it
ResolveTargetStored(e, activePlayers, pos) ==
  LET found == IF e.targetId # JNull THEN [target |-> e.targetId[2]]
               ELSE NearestFrom(e, activePlayers, pos, 1,
                                [target |-> activePlayers[1], far |-> TRUE,
                                 minDist |-> 0])
  IN [target |-> found.target,
      dx |-> pos[found.target][1] - e.pos[1],
      dy |-> pos[found.target][2] - e.pos[2],
      e |-> [e EXCEPT !.targetId = PlayerId(found.target)]]

ResolveTarget(e, activePlayers, pos) ==
  LET found == NearestFrom(e, activePlayers, pos, 1,
                           [target |-> activePlayers[1], far |-> TRUE,
                            minDist |-> 0])
  IN [target |-> found.target,
      dx |-> pos[found.target][1] - e.pos[1],
      dy |-> pos[found.target][2] - e.pos[2],
      e |-> e]

\* line 498: the living players in registry order
ActiveList(active) ==
  IF active = Players THEN <<1, 2>> ELSE IF active = {1} THEN <<1>> ELSE <<2>>

\* two consecutive ticks of one enemy: where the players stand and which of
\* them live in each; a dead player stays dead
TargetLayouts ==
  {<<<<Milli(-50), 0>>, <<Milli(50), 0>>>>,
   <<<<Milli(-50), 0>>, <<Milli(400), Milli(90)>>>>,
   <<<<Milli(300), Milli(-200)>>, <<Milli(50), 0>>>>}
TargetScenes == [active : {{1}, {2}, {1, 2}}, pos : TargetLayouts]
TargetCalls ==
  {c \in [fn : {"ResolveTarget"}, first : TargetScenes, second : TargetScenes,
          epos : {<<0, 0>>, <<Milli(-120), Milli(30)>>, <<Milli(380), Milli(60)>>},
          out : {NULL}] :
     c.second.active \subseteq c.first.active}

ProbeTarget ==
  /\ scope = "probe" /\ probe.fn = "ResolveTarget"
  /\ IF probe.out = NULL THEN TRUE ELSE Len(probe.out.log) < 2
  /\ LET e == IF probe.out = NULL
              THEN [pos |-> probe.epos, targetId |-> JNull]
              ELSE probe.out.log[1].e
         scene == IF probe.out = NULL THEN probe.first ELSE probe.second
         found == ResolveTarget(e, ActiveList(scene.active), scene.pos)
     IN probe' = [probe EXCEPT !.out =
                    [log |-> (IF probe.out = NULL THEN <<>> ELSE probe.out.log)
                               \o <<found>>]]
  /\ Idle

\* update, lines 683-762, on one or two equal projectiles in their first
\* tick.  The projectile is a player's, a regular enemy's or the boss's and
\* overlaps any of the two players (aim), all the enemies (locked) and any of
\* the two crates (shot), whatever its owner.  The registry holds two
\* walkers and the boss, at tick 900.
ProbeOwners ==
  {<<PlayerId(1), "sniper">>, <<PlayerId(2), "ak47">>,
   <<EnemyId(EnemyPeriod), "enemy_normal">>, <<BossId, "enemy_normal">>}
BulletCalls ==
  [fn : {"BulletPhase"}, owner : ProbeOwners, aim : SUBSET Players,
   locked : BOOLEAN, shot : SUBSET {1, 2}, count : {1, 2}, out : {NULL}]

BulletScene(call) ==
  LET F(t) == [FreshSim({}) EXCEPT !.waveTimer = t]
      walker(t) == spawnEnemy(F(t), FALSE, NULL,
                              [enemyType |-> "walker", scale |-> 10,
                               armor |-> FALSE, inRange |-> TRUE]).enemies[1]
      crate(k) == spawnCrate(F(k * CratePeriod), [touch |-> {}, delay |-> 0,
                                    shot |-> k \in call.shot]).crates[1]
      b == NewBullet(call.owner[1], call.owner[2],
                     IF call.owner[2] = "enemy_normal" THEN 7
                     ELSE WeaponProfile(call.owner[2]).speed,
                     [aim |-> call.aim, flight |-> 0, wall |-> FALSE,
                      locked |-> call.locked, rotation |-> Facing(0),
                      spread |-> 0], 3 * CratePeriod)
  IN [F(3 * CratePeriod) EXCEPT
        !.enemies = <<walker(EnemyPeriod), walker(2 * EnemyPeriod)>>
                      \o spawnEnemy(F(2 * CratePeriod + 1), TRUE, NULL, NULL).enemies,
        !.crates = <<crate(1), crate(2)>>,
        !.bossSpawned = TRUE, !.bossSpawns = 1,
        !.crystalsCollected = CRYSTALS_TO_BOSS(NULL),
        !.bullets = [k \in 1..call.count |-> b]]

ProbeBullet ==
  /\ Pending("BulletPhase")
  /\ \E S \in {BulletScene(probe)} :
       \E D \in {[pickup |-> CHOOSE d \in PickupDraws : TRUE]} :
         probe' = [probe EXCEPT !.out =
                     [before |-> S,
                      hit |-> BulletSteps(S, 1, Players, D),
                      after |-> BulletPhase(S, Players, D)]]
  /\ Idle

\* one call of update() with two pickups on the ground, each touched by any
\* of the players, of whom one may be dead; no key is held
PickupCalls ==
  [fn : {"Pickups"}, near : [1..2 -> SUBSET Players],
   dead : {{}, {1}, {2}}, out : {NULL}]

PickupScene(call) ==
  LET F == [FreshSim({}) EXCEPT !.waveTimer = CratePeriod + 1]
      kinds == <<"shotgun", "laser">>
      pickup(k) == spawnPickup(F, k * CratePeriod,
                               [weapon |-> kinds[k],
                                near |-> call.near[k]]).pickups[1]
  IN [F EXCEPT
        !.pickups = [k \in 1..2 |-> pickup(k)],
        !.players = [p \in Players |->
                       IF p \in call.dead
                       THEN [F.players[p] EXCEPT !.dead = TRUE, !.hp = 0]
                       ELSE F.players[p]]]

ProbePickup ==
  /\ Pending("Pickups")
  /\ \E S \in {PickupScene(probe)} :
       \E D \in One(Draws(S, NULL)) :
         probe' = [probe EXCEPT !.out =
                     [before |-> S, after |-> update(S, {}, NULL, D)]]
  /\ Idle

\* update, lines 685 and 704-719: one projectile moves and is tried against
\* the buildings of bulletEnvironment, the obstacles around the camera in a
\* rectangle one and a half times the window.  b is [pos, vel, lifeTime],
\* camera is cameraRef.current, window is <<innerWidth, innerHeight>>.
InsideBuilding(pos, env) ==
  /\ env.type = "building"
  /\ pos[1] > env.pos[1] - env.size[1] \div 2
  /\ pos[1] < env.pos[1] + env.size[1] \div 2
  /\ pos[2] > env.pos[2] - env.size[2] \div 2
  /\ pos[2] < env.pos[2] + env.size[2] \div 2

BulletMove(b, camera, window) ==
  LET bulletEnvironment ==
        getEnvironmentInRect(camera[1], camera[2],
                             (window[1] * 3) \div 2, (window[2] * 3) \div 2)
      pos == <<b.pos[1] + b.vel[1], b.pos[2] + b.vel[2]>>
      wall == \E k \in DOMAIN bulletEnvironment :
                InsideBuilding(pos, bulletEnvironment[k])
  IN [pos |-> pos, vel |-> b.vel,
      lifeTime |-> IF wall THEN 0 ELSE b.lifeTime - 1,
      smoke |-> IF wall THEN 5 ELSE 0]

\* a sniper projectile on its way; where it stands before the move: short
\* of the buildings of cells (3, 3), (-2, 0) and (0, -2), in the open, and
\* one step from the edge of the first
WallVel == <<Milli(25), Milli(24)>>
WallStarts ==
  {<<Milli(675), Milli(656)>>, <<Milli(-295), Milli(26)>>,
   <<Milli(99), Milli(-278)>>, <<Milli(-25), Milli(-24)>>,
   <<Milli(623), Milli(656)>>}
WallCameras == {<<0, 0>>, <<Milli(200), Milli(200)>>}
WallWindows == {<<Milli(400), Milli(300)>>}
WallCalls ==
  [fn : {"BulletMove"}, pos : WallStarts, lifeTime : {1, 40},
   camera : WallCameras, window : WallWindows, out : {NULL}]

ProbeWall ==
  /\ Pending("BulletMove")
  /\ probe' = [probe EXCEPT !.out =
                 BulletMove([pos |-> probe.pos, vel |-> WallVel,
                             lifeTime |-> probe.lifeTime],
                            probe.camera, probe.window)]
  /\ Idle

ProbeCalls ==
  FireCalls \cup TickCalls \cup ResolveCalls \cup ObstacleCalls
    \cup RectCalls \cup LevelCalls \cup SpawnCalls \cup EnemyCalls
    \cup TargetCalls \cup BulletCalls \cup PickupCalls \cup WallCalls

InitProbe == \E call \in ProbeCalls : Mounted /\ scope = "probe" /\ probe = call

NextProbe ==
  \/ ProbeFire
  \/ ProbeTick
  \/ ProbeResolve
  \/ ProbeObstacle
  \/ ProbeRect
  \/ ProbeLevel
  \/ ProbeSpawn
  \/ ProbeEnemy
  \/ ProbeTarget
  \/ ProbeBullet
  \/ ProbePickup
  \/ ProbeWall

SpecProbe == InitProbe /\ [][NextProbe]_vars

(***************************************************************************)
(* Calls of getEnvironmentAt in the course of a session.  update() and     *)
(* draw() call it through getEnvironmentInRect; probe keeps, for every     *)
(* cell, the result of the first call, and the last call with its result.  *)
(***************************************************************************)
Unseen == [unseen |-> TRUE]
\* a building, a tree, an empty cell and a cell of the spawn safe zone
EnvCells == {<<-2, 0>>, <<2, 2>>, <<2, 0>>, <<1, 0>>}

InitEnv ==
  /\ Mounted
  /\ scope = "env"
  /\ probe = [fn |-> "getEnvironmentAt", seen |-> [c \in EnvCells |-> Unseen],
              last |-> Unseen]

CallEnv ==
  /\ scope = "env"
  /\ \E c \in EnvCells :
       LET obj == getEnvironmentAt(c[1], c[2])
       IN probe' = [probe EXCEPT
                      !.seen[c] = IF @ = Unseen THEN obj ELSE @,
                      !.last = [cell |-> c, obj |-> obj]]
  /\ Idle

NextEnv ==
  \/ ClickStart
  \/ ResolveGenerate
  \/ FinishStart
  \/ Render
  \/ FlushEffects
  \/ Frame
  \/ CallEnv

SpecEnv == InitEnv /\ [][NextEnv]_vars

(***************************************************************************)
(* Properties.                                                             *)
(***************************************************************************)
\* calls of update() made in the current session
UpdateCalls == waveTimerRef + gameOverCalls + levelCompleteCalls
\* the step is a call of update() by a frame callback of the session
IsUpdateCall == sessionId' = sessionId /\ UpdateCalls' # UpdateCalls
InSession == sessionId >= 1
NoLivingPlayer == InSession /\ Alive(playersRef) = {}
BossGone == bossSpawnedRef /\ ~HasBoss(enemiesRef)
Bosses == SelectSeq(enemiesRef, LAMBDA e : e.type = "boss")

\* C1: in a session, once a tick starts with no living player, onGameOver
\* is invoked exactly once in total; no later frame callback of the same
\* loop invokes it a second time.
C1_GameOverOnce == gameOverCalls <= 1

\* C2: in a session, once the boss has been spawned and has left the enemy
\* registry, onLevelComplete is invoked exactly once in total, and no tick
\* processing happens in the session after it.
C2_LevelCompleteOnce ==
  /\ levelCompleteCalls <= 1
  /\ levelCompleteCalls >= 1 => ev.kind # "tick"

\* C3: at most one tick loop is live at any time: at most one frame request
\* is pending, it belongs to the loop of the current session, and so no
\* loop of an earlier session runs update() on the registries of a new one.
C3_OneLoop ==
  /\ Cardinality(scheduled) <= 1
  /\ \A c \in scheduled : c.id = sessionId /\ c.id = frameIdRef

C3_Witness ==
  sessionId = 2 /\ scheduled # {} /\ waveTimerRef = 2 /\ startCalls = 2

\* C4: a call of update() that starts with no living player leaves the
\* enemy, projectile, particle, crystal, crate and pickup registries, the
\* wave timer, the collected-crystal count, the boss-spawned flag and the
\* camera unchanged.
C4_DefeatTickChangesNothing ==
  [][(IsUpdateCall /\ NoLivingPlayer) =>
       UNCHANGED <<enemiesRef, bulletsRef, particlesRef, crystalsRef,
                   cratesRef, pickupsRef, waveTimerRef, crystalsCollectedRef,
                   bossSpawnedRef, cameraRef>>]_vars

C4_Witness == NoLivingPlayer /\ gameOverCalls >= 1 /\ bulletsRef # <<>>

\* C5: onLevelComplete is never invoked while the boss has not been spawned
\* in the current session.
C5_NoVictoryBeforeBoss ==
  /\ levelCompleteCalls >= 1 => bossSpawns >= 1
  /\ ev.kind = "levelComplete" => ev.spawnedBefore

C5_Witness == levelCompleteCalls >= 1 /\ sessionId = 1

\* C6: when a call of update() starts with no living player and with the
\* boss spawned and absent from the enemy registry, onGameOver is invoked
\* and onLevelComplete is not.
C6_DefeatFirst ==
  [][(IsUpdateCall /\ NoLivingPlayer /\ BossGone) =>
       /\ gameOverCalls' = gameOverCalls + 1
       /\ levelCompleteCalls' = levelCompleteCalls
       /\ queued'.gameState = "GAME_OVER"]_vars

C6_Witness ==
  /\ NoLivingPlayer /\ BossGone
  /\ gameOverCalls >= 1 /\ levelCompleteCalls = 0

\* C7: within a session the boss is spawned in the first tick that finds
\* the collected-crystal count at 10 + levelNumber * 2 or more with a
\* player alive, not before and not again; the enemy registry never holds
\* more than one boss.
C7_BossOnce ==
  /\ bossSpawns <= 1
  /\ Len(Bosses) <= 1
  /\ bossSpawnedRef <=> bossSpawns = 1
  /\ ev.kind = "tick" =>
       (ev.spawned = 1 <=> (~ev.spawnedBefore /\ ev.countBefore >= ev.threshold))
  /\ ev.kind # "tick" => ev.spawned = 0

C7_Witness == bossSpawns = 1 /\ ev.kind = "tick" /\ ev.spawned = 1

\* C8: within a session the collected-crystal count never decreases; in
\* each tick it grows by exactly the number of crystals that left the
\* crystal registry, and each of them credits its 50 score to exactly one
\* player, alive when the tick started.
C8_TickCount ==
  ev.kind = "tick" =>
    /\ ev.removed >= 0
    /\ crystalsCollectedRef = ev.countBefore + ev.removed
    /\ ev.credit[1] + ev.credit[2] = CrystalScore * ev.removed
    /\ \A p \in Players : ev.credit[p] >= 0
    /\ \A p \in Players : ev.credit[p] > 0 => p \in ev.active
    /\ ev.removed = 1 => \E p \in ev.active : ev.credit[p] = CrystalScore

C8_CrystalCount ==
  /\ []C8_TickCount
  /\ [][sessionId' = sessionId =>
          crystalsCollectedRef' >= crystalsCollectedRef]_vars

C8_Witness ==
  /\ ev.kind = "tick" /\ ev.removed = 1 /\ ev.active = {1, 2}
  /\ crystalsCollectedRef >= 2

\* C9: every entity held in a registry (player, enemy, boss, crate) has
\* 0 <= hp <= maxHp at the start of every tick.
C9_HpInRange ==
  /\ \A p \in DOMAIN playersRef :
       0 <= playersRef[p].hp /\ playersRef[p].hp <= playersRef[p].maxHp
  /\ \A i \in DOMAIN enemiesRef :
       0 <= enemiesRef[i].hp /\ enemiesRef[i].hp <= enemiesRef[i].maxHp
  /\ \A i \in DOMAIN cratesRef :
       0 <= cratesRef[i].hp /\ cratesRef[i].hp <= cratesRef[i].maxHp

\* C10: once the dead flag of a player is true, its hp, weapon, cooldown
\* and score are what they were when the flag was set, and the flag stays
\* true for the rest of the session.
C10_DeadIsFinal ==
  \A p \in DOMAIN playersRef :
    /\ playersRef[p].dead => deathSnap[p] = playersRef[p]
    /\ deathSnap[p] # NULL => playersRef[p].dead

\* the positions of the pickups a call pushed, as a set
DropSet == {ev.drops[k] : k \in DOMAIN ev.drops}

\* C11: the death of an entity happens once.  In every tick no projectile
\* changes the hp of an entity whose dead flag is already set; every
\* player alive when the tick started gains 100 score for each enemy or
\* boss the tick marked dead, and nobody else gains any; and the tick
\* pushes one pickup for each crate it opened, by contact or by
\* projectile, and none for a crate that was dead before.
C11_DeathOnce ==
  ev.kind = "tick" =>
    /\ ev.audit.posthumous = 0
    /\ \A p \in Players :
         ev.award[p] = IF p \in ev.active THEN KillScore * ev.kills ELSE 0
    /\ Len(ev.drops) = Cardinality(ev.opened)
    /\ DropSet = ev.opened

\* a crate killed by the projectiles of the tick before, one of them still
\* in flight after overlapping it dead, is touched by a living player
C11_Witness ==
  /\ ev.kind = "tick" /\ ev.touchedCorpse
  /\ \E i \in DOMAIN bulletsRef :
       /\ StartsWithP(bulletsRef[i].ownerId)
       /\ bulletsRef[i].born < waveTimerRef - 1

\* the ticks a projectile of the registry has been through, the one that
\* pushed it included
Age(b) == waveTimerRef - b.born + 1

\* C12: a projectile loses exactly 1 lifeTime in each tick it is in the
\* registry, so that between two ticks its lifeTime is its initial lifeTime
\* minus its age; it is out of the registry at the end of the tick that
\* takes its lifeTime to 0 and at the end of the tick in which it changed
\* the hp of an entity; hence its age stays below its initial lifeTime.  A
\* tick is a call of update() that gets past the two early returns.
C12_LifeTime ==
  /\ \A i \in DOMAIN bulletsRef :
       LET b == bulletsRef[i] IN
       /\ b.lifeTime > 0
       /\ b.lifeTime = BulletStats(b.bulletType).lifeTime - Age(b)
       /\ Age(b) < BulletStats(b.bulletType).lifeTime
  /\ ev.kind = "tick" => ev.audit.pierced = 0

\* a tick that ended one projectile by its lifeTime and one by a hit, and
\* left another in flight that has been through ten ticks or more
C12_Witness ==
  /\ ev.kind = "tick" /\ ev.audit.spent >= 1 /\ ev.audit.hurt >= 1
  /\ \E i \in DOMAIN bulletsRef : Age(bulletsRef[i]) >= 10

\* C13: a projectile whose lifeTime is at or below 0 after its decrement,
\* or after the building test set it to 0, changes nothing in that tick:
\* no hp of a crate, an enemy or a player, no dead flag, no score, and no
\* pickup is pushed for it.
C13_SpentHitsNothing ==
  ev.kind = "tick" => ev.audit.ghostHits = 0

\* a projectile reached the end of its lifeTime on a living crate
C13_Witness ==
  ev.kind = "tick" /\ ev.audit.spentOnCrate >= 1 /\ ev.audit.hurt >= 1

\* C14: a crate hit by the projectiles of players is dead exactly from the
\* hit that takes its hp to 0 or below: after the turn of every projectile
\* each crate is dead if and only if its hp <= 0, and no later projectile
\* changes its hp.  Every crate a tick opens, by projectile or by contact,
\* gets exactly one pickup at its position in that tick, no crate gets a
\* pickup in another tick, and so no two pickups lie at one position.
C14_CrateOnePickup ==
  /\ ev.kind = "tick" =>
       /\ ev.audit.unsynced = 0 /\ ev.audit.posthumous = 0
       /\ \A c \in ev.opened :
            Cardinality({k \in DOMAIN ev.drops : ev.drops[k] = c}) = 1
       /\ \A k \in DOMAIN ev.drops : ev.drops[k] \in ev.opened
  /\ \A j \in DOMAIN cratesRef : cratesRef[j].dead <=> cratesRef[j].hp <= 0
  /\ \A j, k \in DOMAIN pickupsRef :
       pickupsRef[j].pos = pickupsRef[k].pos => j = k

\* five shotgun pellets meet a crate of 30 hp: the third takes it to -6
\* and dead, one pickup is pushed, the last two overlap it dead
C14_Witness ==
  /\ ev.kind = "tick" /\ ev.audit.crateHits = 3 /\ ev.audit.corpses >= 2
  /\ Len(ev.drops) = 1
  /\ \E j \in DOMAIN cratesRef :
       /\ cratesRef[j].dead /\ cratesRef[j].hp = CrateHp - 3 * 12
       /\ ev.drops[1] = cratesRef[j].id

\* the profile of each weapon: projectiles, damage, speed, cooldown
Profile(weapon) ==
  CASE weapon = "sniper"  -> <<1, 150, 35, 90>>
    [] weapon = "shotgun" -> <<5, 12, 12, 60>>
    [] weapon = "minigun" -> <<1, 8, 18, 4>>
    [] weapon = "laser"   -> <<1, 25, 25, 25>>
    [] weapon = "ak47"    -> <<1, 20, 16, 10>>

\* C15: fireWeapon pushes the projectiles of the player's weapon, all owned
\* by the player, with the damage and the speed of the weapon, and leaves
\* the player's cooldown and maxCooldown at the weapon's value: sniper 1
\* projectile (150, 35, 90), shotgun 5 (12, 12, 60), minigun 1 (8, 18, 4),
\* laser 1 (25, 25, 25), ak47 1 (20, 16, 10).  A sniper shot at rotation 0
\* is one projectile of vel (35, 0), damage 150 and lifeTime 100, and the
\* cooldown is 90.
C15_FireProfile ==
  Returned("fireWeapon") =>
    LET o == probe.out
        pr == Profile(probe.weapon)
    IN /\ Len(o.bullets) = pr[1]
       /\ \A k \in DOMAIN o.bullets :
            /\ o.bullets[k].ownerId = PlayerId(probe.p)
            /\ o.bullets[k].damage = pr[2]
            /\ o.bullets[k].speed = pr[3]
       /\ o.player.cooldown = pr[4] /\ o.player.maxCooldown = pr[4]
       /\ (probe.weapon = "sniper" /\ probe.rotation = Facing(0)) =>
            /\ Velocity(o.bullets[1]) = <<35, 0>>
            /\ o.bullets[1].spread = 0
            /\ o.bullets[1].damage = 150 /\ o.bullets[1].lifeTime = 100
            /\ o.player.cooldown = 90

\* player 1 has fired the sniper at rotation 0
C15_Witness ==
  /\ Returned("fireWeapon")
  /\ probe.p = 1 /\ probe.weapon = "sniper" /\ probe.rotation = Facing(0)
  /\ Len(probe.out.bullets) = 1

\* C16: from the state initGame leaves (the players at (-50, 0) and (50, 0),
\* at rest, no enemy) and with no key held, one call of update() leaves
\* both velocities zero and both positions unchanged, and creates no
\* projectile.
C16_RestStaysAtRest ==
  (Returned("update") /\ probe.keys = {}) =>
    /\ probe.out.bullets = <<>>
    /\ \A p \in Players :
         /\ probe.out.bodies[p].vel = <<0, 0>>
         /\ probe.out.bodies[p].pos = InitialBodies[p].pos

C16_Witness ==
  /\ Returned("update") /\ probe.keys = {}
  /\ probe.out.waveTimer = 1
  /\ probe.out.bodies[1].pos = <<Milli(-50), 0>>

\* the circle of the entity overlaps the rectangle of the building: the
\* point of the rectangle nearest to its centre is closer than its radius
OverlapsBuilding(entity, env) ==
  LET c == Clamp(entity.pos, env)
      dx == entity.pos[1] - c[1]
      dy == entity.pos[2] - c[2]
  IN dx * dx + dy * dy < entity.radius * entity.radius

\* the centre of the entity lies in the rectangle, border included
CentreInside(entity, env) == Clamp(entity.pos, env) = entity.pos

\* C17: for every entity that overlaps a building, the centre inside the
\* rectangle included, one collision resolution pushes the entity outside
\* the rectangle, so that its circle no longer overlaps it, and scales both
\* components of its velocity by 0.5.
C17_PushedOut ==
  (Returned("Resolve") /\ OverlapsBuilding(ProbeEntity, ProbeBuilding)) =>
    /\ ~OverlapsBuilding(probe.out, ProbeBuilding)
    /\ \A k \in 1..2 : 2 * probe.out.vel[k] = probe.vel[k]

KindOf(val) ==
  IF val > 850000 THEN "building"
  ELSE IF val > 300000 THEN "tree" ELSE "none"
KindFound(obj) == IF obj = NULL THEN "none" ELSE obj.type

\* C19: a cell with max(|gx|, |gy|) < 2 yields no obstacle whatever its
\* hash value; any other cell yields what the hash value alone decides: a
\* building above 0.85, a tree above 0.3 and up to 0.85, nothing up to 0.3.
C19_SafeZoneThenHash ==
  Returned("Obstacle") =>
    LET inner == \A g \in {probe.gx, probe.gy} : g \in {-1, 0, 1}
    IN KindFound(probe.out.obj) = IF inner THEN "none" ELSE KindOf(probe.val)

C19_Witness ==
  /\ Returned("Obstacle")
  /\ probe.gx = 1 /\ probe.gy = -1 /\ probe.val = 950001
  /\ probe.out.obj = NULL

\* the cells whose obstacles the query must return: those of the inclusive
\* range of cells that covers the rectangle, widened by one cell on every
\* side
Covered(x, y, w, h) ==
  {c \in (-4..4) \X (-4..4) :
     /\ (c[1] + 2) * GRID_CELL_SIZE > x - w \div 2
     /\ (c[1] - 1) * GRID_CELL_SIZE <= x + w \div 2
     /\ (c[2] + 2) * GRID_CELL_SIZE > y - h \div 2
     /\ (c[2] - 1) * GRID_CELL_SIZE <= y + h \div 2}

\* C20: getEnvironmentInRect returns exactly the obstacles of the cells of
\* the inclusive grid range that covers the rectangle, widened by one cell
\* in every direction: the obstacle of each such cell that has one, once,
\* and no obstacle of a cell outside the range.
C20_RectQuery ==
  Returned("getEnvironmentInRect") =>
    LET objs == probe.out.objs
        cells == Covered(probe.x, probe.y, probe.w, probe.h)
        full == {c \in cells : getEnvironmentAt(c[1], c[2]) # NULL}
    IN /\ \A c \in full :
            Cardinality({k \in DOMAIN objs :
                           objs[k] = getEnvironmentAt(c[1], c[2])}) = 1
       /\ \A k \in DOMAIN objs : <<objs[k].id[2], objs[k].id[3]>> \in full
       /\ Len(objs) = Cardinality(full)

C20_Witness ==
  /\ Returned("getEnvironmentInRect")
  /\ probe.x = Milli(-250) /\ probe.y = 0 /\ probe.w = Milli(300) /\ probe.h = 0
  /\ Len(probe.out.objs) = 6
  /\ \E k \in DOMAIN probe.out.objs : probe.out.objs[k].type = "building"

\* the placeholder of a field
Placeholder(f, lv) ==
  CASE f = "biomeName" -> Str("Sector " \o ToString(lv))
    [] f = "description" ->
         Str("A desolate wasteland filled with unknown threats.")
    [] f = "bossName" -> Str("The Guardian")
    [] f = "bossDescription" -> Str("A massive construct of ancient metal.")

\* C21: generateLevelInfo(level) never rejects.  When the generation call
\* throws or its text cannot be parsed it resolves to the fixed default
\* record; a missing field is replaced by its placeholder; in every case
\* levelNumber is the level asked for and biomeName, description, bossName
\* and bossDescription are neither empty nor undefined.
C21_LevelInfoAlways ==
  Returned("generateLevelInfo") =>
    /\ ~probe.out.rejected
    /\ probe.out.info.levelNumber = probe.level
    /\ \A f \in LevelFields : probe.out.info[f] \notin {Undefined, Str("")}
    /\ probe.reply.form \in {"throws", "garbage"} =>
         probe.out.info = DefaultLevelInfo(probe.level)
    /\ probe.reply.form = "object" =>
         \A f \in LevelFields :
           probe.reply.fields[f] = Undefined =>
             probe.out.info[f] = Placeholder(f, probe.level)

C21_Witness ==
  /\ Returned("generateLevelInfo") /\ probe.level = 2
  /\ probe.reply.form = "garbage"
  /\ probe.out.info.biomeName = Str("Sector 2-Z")

\* the step runs update(): in a frame callback, or in the effect that
\* starts a session
RunsUpdate == sessionId' # sessionId \/ UpdateCalls' # UpdateCalls

\* C22: no tick runs before the session is bootstrapped: update() is never
\* run while the game state is MENU or LOADING_LEVEL, and the first tick of
\* every session, after the first start, a next level or a restart, runs
\* only after generateLevelInfo has resolved and its LevelInfo is stored,
\* whatever the latency of the generator.
C22_NoTickBeforeBootstrap ==
  [][RunsUpdate =>
       /\ gameState \notin {"MENU", "LOADING_LEVEL"}
       /\ levelInfo # NULL
       /\ \A g \in generating : g.stage = "await" => g.id # levelInfo.id
       /\ sessionId' # sessionId => gameState = "PLAYING"]_vars

C22_Witness ==
  /\ sessionId = 2 /\ startCalls = 2 /\ waveTimerRef = 1
  /\ gameState = "PLAYING" /\ levelInfo # NULL /\ levelInfo.id = 2
  /\ generating = {}

\* the step runs a tick: update() past its early returns
RunsTick == waveTimerRef' # waveTimerRef \/ sessionId' # sessionId
\* player p as the tick finds it
Before(p) == IF sessionId' # sessionId THEN InitialPlayers[p] ELSE playersRef[p]
\* the tick leaves a projectile that p fired in it, or a raised cooldown
FiredIn(p) ==
  \/ \E i \in DOMAIN bulletsRef' :
       bulletsRef'[i].ownerId = PlayerId(p) /\ bulletsRef'[i].born = waveTimerRef'
  \/ playersRef'[p].cooldown > Before(p).cooldown
\* the cooldown of the weapon a projectile was fired by
CooldownOf(b) == WeaponProfile(b.bulletType).cooldown

\* C23: a player creates projectiles in a tick only if it is alive, its
\* fire key is held and its cooldown is at or below 0; firing sets the
\* cooldown to the value C of the weapon fired and the cooldown drops by
\* one per tick, so two shots of a player are never fewer than C ticks
\* apart, also when the player picks up another weapon in between.
C23_FireGate ==
  /\ [][RunsTick =>
          \A p \in Players :
            IF FiredIn(p)
            THEN /\ ~Before(p).dead
                 /\ FireKey(p) \in keysPressed
                 /\ Before(p).cooldown <= 0
                 /\ playersRef'[p].cooldown
                      = WeaponProfile(Before(p).weapon).cooldown - 1
            ELSE playersRef'[p].cooldown
                   = IF Before(p).dead \/ Before(p).cooldown <= 0
                     THEN Before(p).cooldown
                     ELSE Before(p).cooldown - 1]_vars
  /\ [](\A i, j \in DOMAIN bulletsRef :
          LET a == bulletsRef[i]
              b == bulletsRef[j]
          IN (StartsWithP(a.ownerId) /\ a.ownerId = b.ownerId /\ a.born < b.born)
               => b.born - a.born >= CooldownOf(a))

\* the boy fired the sniper, took the shotgun from a pickup and is still
\* waiting for the cooldown of the sniper
C23_Witness ==
  /\ scope = "combat" /\ playersRef # <<>>
  /\ playersRef[1].weapon = "shotgun" /\ playersRef[1].maxCooldown = 90
  /\ playersRef[1].cooldown > 0
  /\ "Space" \in keysPressed

\* 1 when the condition holds, 0 otherwise
Count(cond) == IF cond THEN 1 ELSE 0

\* C24: ordinary spawning happens only while no boss has spawned and
\* respects its caps: a tick adds a regular enemy only when its counter is a
\* multiple of 120 and fewer than 30 enemies are present, a crystal only on
\* a multiple of 60 with fewer than 15 present, a crate only on a multiple
\* of 300 with fewer than 5 present, so no registry passes 30 regular
\* enemies, 15 crystals, 5 crates; in a tick after the one the boss spawned
\* in, no regular enemy, crystal or crate is added.
C24_SpawnPolicy ==
  Returned("SpawnPhase") =>
    LET t == probe.out.waveTimer
        open == probe.boss # "alive"
    IN /\ t = probe.timer + 1
       /\ probe.out.enemies - probe.enemies
            = Count(open /\ t % 120 = 0 /\ probe.enemies < 30)
       /\ probe.out.crystals - probe.crystals
            = Count(open /\ t % 60 = 0 /\ probe.crystals < 15)
       /\ probe.out.crates - probe.crates
            = Count(open /\ t % 300 = 0 /\ probe.crates < 5)
       /\ probe.out.enemies <= 30
       /\ probe.out.crystals <= 15
       /\ probe.out.crates <= 5
       /\ probe.out.bosses = Count(probe.boss # "none")

\* a tick on a multiple of 120, 60 and 300 with every registry at its cap
C24_Witness ==
  /\ Returned("SpawnPhase") /\ probe.timer = 599 /\ probe.boss = "none"
  /\ probe.enemies = 30 /\ probe.crystals = 15 /\ probe.crates = 5
  /\ probe.out.enemies = 30 /\ probe.out.crystals = 15 /\ probe.out.crates = 5

\* the ticks of the log in which the enemy fired
FireTicks(log) == {k \in DOMAIN log : log[k].added # <<>>}

\* C25: enemy fire is gated by the attack cooldown.  A boss updated with
\* cooldown at or below 0 adds exactly 16 projectiles and resets its
\* cooldown to 120 whatever the range, so its bursts are 120 ticks apart
\* while a player lives; a shooter adds exactly one projectile, only with
\* cooldown at or below 0 and its target within 550 units; a walker never
\* fires; the cooldown decreases by one per tick only while positive.
C25_EnemyFireGate ==
  Returned("EnemyPhase") =>
    LET log == probe.out.log
        kind == probe.enemyType
        Due(k) == /\ log[k].before <= 0
                  /\ kind = "boss" \/ (kind = "shooter" /\ probe.inRange)
    IN /\ \A k \in DOMAIN log :
            /\ Len(log[k].added)
                 = IF ~Due(k) THEN 0 ELSE IF kind = "boss" THEN 16 ELSE 1
            /\ log[k].after
                 = IF Due(k)
                   THEN (IF kind = "boss" THEN 120 ELSE probe.wait) - 1
                   ELSE IF log[k].before > 0 THEN log[k].before - 1
                        ELSE log[k].before
       /\ kind = "boss" =>
            \A j, k \in FireTicks(log) : j < k => k - j >= 120
       /\ kind = "boss" /\ Len(log) > 123 =>
            \E j, k \in FireTicks(log) : k - j = 120

\* a boss that starts with cooldown 3 fires in ticks 4 and 124
C25_Witness ==
  /\ Returned("EnemyPhase") /\ probe.enemyType = "boss" /\ probe.cooldown = 3
  /\ FireTicks(probe.out.log) = {4, 124}
  /\ Len(probe.out.log[4].added) = 16 /\ probe.out.log[4].after = 119

\* C26: every projectile fired by an enemy is an enemy_normal projectile of
\* damage 10 and radius 6; its speed is 7 when a shooter fires it and 5 when
\* it belongs to a boss burst.
C26_EnemyProfile ==
  Returned("EnemyPhase") =>
    \A k \in DOMAIN probe.out.log :
      \A n \in DOMAIN probe.out.log[k].added :
        LET b == probe.out.log[k].added[n] IN
        /\ b.bulletType = "enemy_normal" /\ b.ownerId = probe.out.sim.enemies[1].id
        /\ b.damage = 10 /\ b.radius = 6
        /\ b.speed = IF probe.enemyType = "boss" THEN 5 ELSE 7

\* a boss burst: 16 projectiles of damage 10, radius 6 and speed 5
C26_Witness ==
  /\ Returned("EnemyPhase") /\ probe.enemyType = "boss"
  /\ LET last == probe.out.log[Len(probe.out.log)].added IN
     /\ Len(last) = 16
     /\ \A n \in 1..16 : last[n].damage = 10 /\ last[n].radius = 6
                           /\ last[n].speed = 5

\* C26 as stated: every enemy projectile, of a shooter and of a boss burst,
\* has damage 10, speed 7 and radius 6
C26_SingleProfile ==
  Returned("EnemyPhase") =>
    \A k \in DOMAIN probe.out.log :
      \A n \in DOMAIN probe.out.log[k].added :
        LET b == probe.out.log[k].added[n] IN
        b.damage = 10 /\ b.speed = 7 /\ b.radius = 6

\* the distance of player p from the enemy of the probe in a scene
Away(scene, p) ==
  Hypot(scene.pos[p][1] - probe.epos[1], scene.pos[p][2] - probe.epos[2])

\* the target resolved in a scene lives, no living player is strictly nearer,
\* and the enemy turns to it
AimsAtNearest(scene, found) ==
  /\ found.target \in scene.active
  /\ \A q \in scene.active : Away(scene, q) >= Away(scene, found.target)
  /\ found.dx = scene.pos[found.target][1] - probe.epos[1]
  /\ found.dy = scene.pos[found.target][2] - probe.epos[2]
  /\ found.e.targetId = JNull

\* C27: every enemy, every tick, resolves its target from the players that
\* live at that moment: the target is alive, no other living player is
\* strictly nearer, a dead player is never aimed at or pursued, and no
\* target stored in an earlier tick is used.
C27_TargetResolvedAfresh ==
  Returned("ResolveTarget") =>
    /\ AimsAtNearest(probe.first, probe.out.log[1])
    /\ Len(probe.out.log) = 2 => AimsAtNearest(probe.second, probe.out.log[2])

\* the player targeted in the first tick is dead in the second, and was the
\* nearer one; the second tick targets the survivor
C27_Witness ==
  /\ Returned("ResolveTarget") /\ Len(probe.out.log) = 2
  /\ probe.first.active = {1, 2}
  /\ probe.out.log[1].target \notin probe.second.active
  /\ Away(probe.second, probe.out.log[1].target)
       < Away(probe.second, probe.out.log[2].target)
  /\ probe.out.log[2].target \in probe.second.active

\* hp lost by the entities of a registry between two states
RECURSIVE LostFrom(_, _, _)
LostFrom(before, after, k) ==
  IF k > Len(before) THEN 0
  ELSE before[k].hp - after[k].hp + LostFrom(before, after, k + 1)
Lost(before, after) == LostFrom(before, after, 1)

\* C28: the faction of a projectile is its owner's identity alone.  A
\* projectile owned by a player never reduces the hp of a player; one owned
\* by an enemy or the boss never reduces the hp of an enemy, the boss or a
\* crate; and no enemy or boss identity begins with the player prefix.
C28_FactionByOwner ==
  Returned("BulletPhase") =>
    LET S == probe.out.before
        T == probe.out.hit
    IN /\ StartsWithP(probe.owner[1]) => Lost(S.players, T.players) = 0
       /\ ~StartsWithP(probe.owner[1]) =>
            Lost(S.enemies, T.enemies) = 0 /\ Lost(S.crates, T.crates) = 0
       /\ \A k \in DOMAIN S.enemies : ~StartsWithP(S.enemies[k].id)
       /\ \A p \in Players : StartsWithP(S.players[p].id)
       /\ StartsWithP(probe.owner[1]) = (probe.owner[1] \in {PlayerId(1), PlayerId(2)})

\* a player's projectile over both players and nothing else flies on, and
\* the players keep their hp
C28_Witness ==
  /\ Returned("BulletPhase") /\ probe.owner[1] = PlayerId(1)
  /\ probe.aim = Players /\ ~probe.locked /\ probe.shot = {}
  /\ probe.out.hit.players = probe.out.before.players
  /\ Len(probe.out.after.bullets) = probe.count

\* the projectiles of the probe that are gone after the purge of line 761
Gone == probe.count - Len(probe.out.after.bullets)

\* C29: a projectile resolves at most one collision in its whole life.  It
\* reduces the hp of at most one entity, exactly once, by its damage; from
\* then on it is dead for every later check of the tick and is purged at the
\* end of it, also when it overlaps a crate and an enemy, or several
\* enemies, at once.
C29_OneCollision ==
  Returned("BulletPhase") =>
    LET S == probe.out.before
        T == probe.out.hit
        damage == S.bullets[1].damage
        lost == Lost(S.players, T.players) + Lost(S.enemies, T.enemies)
                  + Lost(S.crates, T.crates)
        Touched(before, after) ==
          Cardinality({k \in DOMAIN before : after[k].hp # before[k].hp})
    IN /\ lost = damage * Gone
       /\ \A k \in DOMAIN T.bullets :
            \/ T.bullets[k].lifeTime = 0
            \/ T.bullets[k].lifeTime = S.bullets[k].lifeTime - 1
       /\ Gone = Cardinality({k \in DOMAIN T.bullets : T.bullets[k].lifeTime = 0})
       /\ probe.count = 1 =>
            Touched(S.players, T.players) + Touched(S.enemies, T.enemies)
              + Touched(S.crates, T.crates) = Gone
       /\ \A k \in DOMAIN probe.out.after.bullets :
            probe.out.after.bullets[k].lifeTime > 0

\* one sniper projectile over both crates and all the enemies: the first
\* crate takes the damage, and nothing else does
C29_Witness ==
  /\ Returned("BulletPhase") /\ probe.owner[1] = PlayerId(1)
  /\ probe.count = 1 /\ probe.locked /\ probe.shot = {1, 2}
  /\ probe.out.hit.crates[1].hp
       = probe.out.before.crates[1].hp - probe.out.before.bullets[1].damage
  /\ probe.out.hit.crates[2] = probe.out.before.crates[2]
  /\ probe.out.hit.enemies = probe.out.before.enemies
  /\ probe.out.after.bullets = <<>>

\* the living players that touch pickup k of the probe, and the one whose
\* turn comes first
Touchers(k) == {p \in probe.near[k] : p \notin probe.dead}
Consumer(k) == IF Touchers(k) = {} THEN 0 ELSE MinOf(Touchers(k))

SameSessionTick == sessionId' = sessionId /\ waveTimerRef' # waveTimerRef

\* C31: dead entities are purged on schedule.  After every tick no enemy in
\* the registry has dead set and no projectile has lifeTime at or below 0; a
\* pickup with dead set never outlives its tick, and a crate with dead set
\* is gone after the next tick; the two players stay in their registry, dead
\* or alive, for the whole session.
C31_PurgedOnSchedule ==
  /\ [](/\ \A i \in DOMAIN enemiesRef : ~enemiesRef[i].dead
        /\ \A i \in DOMAIN bulletsRef : bulletsRef[i].lifeTime > 0
        /\ \A i \in DOMAIN pickupsRef : ~pickupsRef[i].dead
        /\ InSession =>
             /\ DOMAIN playersRef = Players
             /\ \A p \in Players : playersRef[p].id = PlayerId(p))
  /\ [][SameSessionTick =>
          \A j \in DOMAIN cratesRef :
            cratesRef[j].dead =>
              \A k \in DOMAIN cratesRef' : cratesRef'[k].id # cratesRef[j].id]_vars

\* a tick has purged a crate that a projectile had broken in the tick
\* before; both players are in the registry
C31_Witness ==
  /\ InSession /\ ev.kind = "tick" /\ ev.purged # {}
  /\ DOMAIN playersRef = Players

\* C32: whenever a session is playing, the level number of its LevelInfo,
\* which sets the crystal threshold and the boss hp, equals the level of
\* App: n + 1 after 'next level' from level n, 1 after 'restart'.
C32_LevelInfoOfLevel ==
  (gameState = "PLAYING" /\ levelInfo # NULL) => levelInfo.levelNumber = level

\* the buildings of the cells around the origin
Buildings ==
  {getEnvironmentAt(gx, gy) : gx \in -3..3, gy \in -3..3} \ {NULL}

\* C33: every projectile whose position after its move lies strictly inside
\* the rectangle of a building is destroyed in that tick, its lifeTime set
\* to 0, wherever in the world it is and however far from the camera.
C33_WallStopsProjectile ==
  Returned("BulletMove") =>
    ((\E env \in Buildings : InsideBuilding(probe.out.pos, env))
       => probe.out.lifeTime = 0)

====
